---- MODULE Spec2Model ----
(***************************************************************************)
(* BioLens consultation engine (consultation-engine.ts): the circuit       *)
(* breaker, the retry loop around the Gemini client, the error history    *)
(* and the construction of the consultation response.                      *)
(*                                                                         *)
(* Several generateConsultation calls may be in flight on one engine: a   *)
(* call runs synchronously between two awaits, so every action below is   *)
(* one synchronous segment of the handler (from one await to the next).   *)
(* Date.now() is the variable now, in milliseconds.                        *)
(*                                                                         *)
(* Strings are modelled by the set of the phrases (lower case) that       *)
(* String.includes is asked about: s.includes(p) is  p \in s.              *)
(***************************************************************************)
EXTENDS Integers, Sequences, FiniteSets, TLC

\* ---------------------------------------------------------------- constants
\* new CircuitBreaker(5, 60000)
FailureThreshold == 5
RecoveryTimeout == 60000
\* ConsultationEngine fields
MaxRetries == 3
RetryDelay == 1000
MaxErrorHistory == 100
\* sanitizeSymptoms: sanitized.length > 2000
SanitizedMaxLength == 2000
\* generateEnhancedFallbackRecommendations: recommendations.slice(0, 8)
MaxEnhancedRecommendations == 8
\* generateFallbackRecommendations: recommendations.slice(0, 6)
MaxFallbackRecommendations == 6

\* ------------------------------------------------------------------- bounds
\* generateConsultation calls that may be in flight at once
MaxConcurrent == 2
\* error records written between two resets, the calls in flight counted in
MaxErrors == 7
\* failed requests of a run that fills the error history and goes on
MaxFailedRequests == 104
\* the clock is not advanced by idle periods beyond this time (ms)
MaxTime == 120000
\* the pieces a symptom text is put together from
MaxFragments == 3
\* failed requests in a run that reads the reports
MaxReportedFailures == 6
\* failed requests in a run that counts the failures of requests
MaxCountedFailures == 6
\* failed requests in a run that lets the breaker recover
MaxRecoveryFailures == 7
\* sendConsultationRequest calls that may be in flight on the client at once
MaxCalls == 2

Slots == 1..MaxConcurrent

Max(a, b) == IF a >= b THEN a ELSE b

RECURSIVE Pow2(_)
Pow2(n) == IF n <= 0 THEN 1 ELSE 2 * Pow2(n - 1)

\* ------------------------------------------------------------------- errors
\* An Error object: the phrases its message contains, its status property
\* (0: none) and its retryAfter property (0: none).
Err(msg, status, retryAfter) ==
    [message |-> msg, status |-> status, retryAfter |-> retryAfter]

\* 'Network connection failed'
NetworkError == Err({"network", "connection"}, 0, 0)
\* 'Authentication failed - invalid API key'
AuthError == Err({"authentication", "api key"}, 0, 0)
\* 'Rate limit exceeded', status 429
RateLimitError == Err({"rate limit"}, 429, 0)
\* a rate-limit error that carries retryAfter = 5000
RateLimitErrorAfter == Err({"rate limit"}, 429, 5000)
\* 'API key quota exceeded': matches both signatures
AuthQuotaError == Err({"api key", "quota"}, 0, 0)
\* 'Service unavailable'
ServiceError == Err({"service", "unavailable"}, 0, 0)
\* 'Unknown error occurred'
UnknownError == Err({"unknown error"}, 0, 0)
\* thrown by the retry loop when initialize() returns false
InitError == Err({"failed to initialize"}, 0, 0)
\* thrown by CircuitBreaker.execute while open
CircuitOpenError == Err({"circuit breaker is open", "service", "unavailable"}, 0, 0)

isRateLimitError(error) ==
    \/ "rate limit" \in error.message
    \/ "quota" \in error.message
    \/ "too many requests" \in error.message
    \/ error.status = 429

isAuthenticationError(error) ==
    \/ "authentication" \in error.message
    \/ "api key" \in error.message
    \/ "unauthorized" \in error.message
    \/ error.status = 401
    \/ error.status = 403

categorizeError(error) ==
    IF isAuthenticationError(error) THEN "authentication"
    ELSE IF isRateLimitError(error) THEN "rate_limit"
    ELSE IF {"network", "connection", "timeout"} \cap error.message # {} THEN "network"
    ELSE IF {"service", "unavailable", "server"} \cap error.message # {} THEN "service_unavailable"
    ELSE "unknown"

\* handleRateLimit: error.retryAfter || this.retryDelay
RateLimitWait(error) ==
    IF error.retryAfter # 0 THEN error.retryAfter ELSE RetryDelay

\* a delay that does not grow
BackoffDelayFixed(attempt) == RetryDelay

\* this.retryDelay * Math.pow(2, attempt - 1)
BackoffDelay(attempt) == RetryDelay * Pow2(attempt - 1)

\* ------------------------------------------------------------------ strings
\* The text of the symptoms is the sequence of its characters.
UpperCaseLetters ==
    <<"A", "B", "C", "D", "E", "F", "G", "H", "I", "J", "K", "L", "M",
      "N", "O", "P", "Q", "R", "S", "T", "U", "V", "W", "X", "Y", "Z">>
LowerCaseLetters ==
    <<"a", "b", "c", "d", "e", "f", "g", "h", "i", "j", "k", "l", "m",
      "n", "o", "p", "q", "r", "s", "t", "u", "v", "w", "x", "y", "z">>
DigitChars == {"0", "1", "2", "3", "4", "5", "6", "7", "8", "9"}

IsUpperCase(c) == \E k \in 1..Len(UpperCaseLetters) : UpperCaseLetters[k] = c
IsLowerCase(c) == \E k \in 1..Len(LowerCaseLetters) : LowerCaseLetters[k] = c

\* String.toLowerCase
toLowerCaseChar(c) ==
    IF IsUpperCase(c)
    THEN LowerCaseLetters[CHOOSE k \in 1..Len(UpperCaseLetters) : UpperCaseLetters[k] = c]
    ELSE c

toLowerCase(s) == [k \in 1..Len(s) |-> toLowerCaseChar(s[k])]

\* \s and \w of the regular expressions
IsSpace(c) == c \in {" ", "\t", "\n"}
IsWord(c) == IsLowerCase(c) \/ IsUpperCase(c) \/ c \in DigitChars \/ c = "_"

\* the literal lit (in lower case) is at position i of s, whatever the case
StartsAt(s, i, lit) ==
    /\ i >= 1
    /\ i + Len(lit) - 1 <= Len(s)
    /\ \A k \in 1..Len(lit) : toLowerCaseChar(s[i + k - 1]) = lit[k]

\* s.toLowerCase().includes(lit)
includes(s, lit) == \E i \in 1..Len(s) : StartsAt(s, i, lit)

\* String.trim
trim(s) ==
    LET kept == {k \in 1..Len(s) : ~IsSpace(s[k])}
    IN  IF kept = {} THEN <<>>
        ELSE SubSeq(s, CHOOSE k \in kept : \A m \in kept : k <= m,
                       CHOOSE k \in kept : \A m \in kept : k >= m)

\* the end of the run of the characters of one class that starts at i (i - 1
\* if the character at i is not of the class); class: "space", "word"
InClass(class, c) == IF class = "space" THEN IsSpace(c) ELSE IsWord(c)

RunEnd(class, s, i) ==
    LET stops == {k \in i..Len(s) : ~InClass(class, s[k])}
    IN  IF stops = {} THEN Len(s)
        ELSE (CHOOSE k \in stops : \A m \in stops : k <= m) - 1

\* replace(/\s+/g, ' ') from position i on
RECURSIVE NormalizeWhitespace(_, _)
NormalizeWhitespace(s, i) ==
    IF i > Len(s) THEN <<>>
    ELSE IF IsSpace(s[i])
    THEN <<" ">> \o NormalizeWhitespace(s, RunEnd("space", s, i) + 1)
    ELSE <<s[i]>> \o NormalizeWhitespace(s, i + 1)

ScriptOpen == <<"<", "s", "c", "r", "i", "p", "t">>
ScriptClose == <<"<", "/", "s", "c", "r", "i", "p", "t", ">">>
JavascriptScheme == <<"j", "a", "v", "a", "s", "c", "r", "i", "p", "t", ":">>
DataScheme == <<"d", "a", "t", "a", ":">>
VbscriptScheme == <<"v", "b", "s", "c", "r", "i", "p", "t", ":">>
OnPrefix == <<"o", "n">>

\* harmfulPatterns, in the order of the array
HarmfulPatterns ==
    <<"script tag", "html tag", "javascript:", "data:", "vbscript:", "event handler">>

\* /<script\b[^<]*(?:(?!<\/script>)<[^<]*)*<\/script>/gi at position i: the
\* length of the match, 0 for none. The match goes from '<script' before a
\* character that is not a word character to the first '</script>'.
ScriptTagMatch(s, i) ==
    LET closes == {j \in (i + Len(ScriptOpen))..Len(s) : StartsAt(s, j, ScriptClose)}
    IN  IF /\ StartsAt(s, i, ScriptOpen)
           /\ i + Len(ScriptOpen) <= Len(s)
           /\ ~IsWord(s[i + Len(ScriptOpen)])
           /\ closes # {}
        THEN (CHOOSE j \in closes : \A m \in closes : j <= m) + Len(ScriptClose) - i
        ELSE 0

\* /<[^>]*>/g at position i
HtmlTagMatch(s, i) ==
    LET closes == {j \in (i + 1)..Len(s) : s[j] = ">"}
    IN  IF s[i] = "<" /\ closes # {}
        THEN (CHOOSE j \in closes : \A m \in closes : j <= m) - i + 1
        ELSE 0

\* /javascript:/gi, /data:/gi, /vbscript:/gi at position i
LiteralMatch(s, i, lit) == IF StartsAt(s, i, lit) THEN Len(lit) ELSE 0

\* /on\w+\s*=/gi at position i
EventHandlerMatch(s, i) ==
    LET wordEnd == RunEnd("word", s, i + Len(OnPrefix))
        spaceEnd == RunEnd("space", s, wordEnd + 1)
    IN  IF /\ StartsAt(s, i, OnPrefix)
           /\ wordEnd >= i + Len(OnPrefix)
           /\ spaceEnd + 1 <= Len(s)
           /\ s[spaceEnd + 1] = "="
        THEN spaceEnd + 1 - i + 1
        ELSE 0

\* the length of the match of a pattern at position i of s, 0 for none
MatchLength(pattern, s, i) ==
    CASE pattern = "script tag" -> ScriptTagMatch(s, i)
      [] pattern = "html tag" -> HtmlTagMatch(s, i)
      [] pattern = "javascript:" -> LiteralMatch(s, i, JavascriptScheme)
      [] pattern = "data:" -> LiteralMatch(s, i, DataScheme)
      [] pattern = "vbscript:" -> LiteralMatch(s, i, VbscriptScheme)
      [] pattern = "event handler" -> EventHandlerMatch(s, i)

\* pattern.test(s)
Matches(pattern, s) == \E i \in 1..Len(s) : MatchLength(pattern, s, i) > 0

\* s.replace(pattern, '') from position i on: the matches are taken from the
\* left, each search starts behind the match before
RECURSIVE RemoveMatches(_, _, _)
RemoveMatches(pattern, s, i) ==
    IF i > Len(s) THEN <<>>
    ELSE LET n == MatchLength(pattern, s, i)
         IN  IF n > 0 THEN RemoveMatches(pattern, s, i + n)
             ELSE <<s[i]>> \o RemoveMatches(pattern, s, i + 1)

\* harmfulPatterns.forEach from the k-th pattern on
RECURSIVE RemoveHarmful(_, _)
RemoveHarmful(s, k) ==
    IF k > Len(HarmfulPatterns) THEN s
    ELSE RemoveHarmful(RemoveMatches(HarmfulPatterns[k], s, 1), k + 1)

TruncationMarker == <<".", ".", ".">>

\* sanitizeSymptoms(symptoms); '' (and what is not a string) gives ''
sanitizeSymptoms(symptoms) ==
    IF symptoms = <<>> THEN <<>>
    ELSE LET sanitized == RemoveHarmful(NormalizeWhitespace(trim(symptoms), 1), 1)
         IN  IF Len(sanitized) > SanitizedMaxLength
             THEN SubSeq(sanitized, 1, SanitizedMaxLength) \o TruncationMarker
             ELSE sanitized

\* ------------------------------------------------------------------- inputs
\* A DetectedCondition: the phrases of its name, its flag, its confidence in
\* percent.
PredictionWith(name, attention, confidence) ==
    [condition |-> name, requiresAttention |-> attention, confidence |-> confidence]

Prediction(name, attention) == PredictionWith(name, attention, 85)

\* An AnalysisResult. overallConfidence is in percent (85 is 0.85).
\* isNull: the argument is null; topPredictionDefined, processingInfoDefined:
\* the property is there (a missing one reads as undefined).
Analysis(preds, top, conf, risk) ==
    [isNull |-> FALSE, predictions |-> preds,
     topPredictionDefined |-> TRUE, topPrediction |-> top,
     overallConfidence |-> conf, riskLevel |-> risk,
     processingInfoDefined |-> TRUE]

\* The arguments of generateConsultation. symptoms: the characters of the
\* text. sessionId: "" or an identifier.
InputWith(analysis, symptoms, sessionId) ==
    [analysisResult |-> analysis, symptoms |-> symptoms, sessionId |-> sessionId]

\* the arguments with the symptoms ''
Input(analysis, sessionId) == InputWith(analysis, <<>>, sessionId)

\* step 1: the ConsultationInput, with the symptoms sanitized
ConsultationInput(data) ==
    [data EXCEPT !.symptoms = sanitizeSymptoms(@)]

ConditionNames ==
    {{"eczema"}, {"melanoma"}, {"carcinoma", "cancer"}, {"cancer"}, {"healthy"}}

RiskLevels == {"low", "moderate", "high"}

\* well-formed inputs: one prediction, topPrediction is its name
WellFormedInputs ==
    {Input(Analysis(<<Prediction(n, a)>>, n, 85, r), "session")
        : n \in ConditionNames, a \in BOOLEAN, r \in RiskLevels}

EczemaAnalysis == Analysis(<<Prediction({"eczema"}, TRUE)>>, {"eczema"}, 85, "moderate")

EczemaInput == Input(EczemaAnalysis, "session")

\* inputs validateInput rejects
RejectedInputs ==
    {Input([EczemaAnalysis EXCEPT !.isNull = TRUE], "session"),
     Input([EczemaAnalysis EXCEPT !.predictions = <<>>], "session"),
     Input([EczemaAnalysis EXCEPT !.overallConfidence = 150], "session"),
     Input(EczemaAnalysis, "")}

\* inputs validateInput accepts (a missing topPrediction is a warning only,
\* processingInfo is not looked at) and the steps before the call cannot handle
MalformedInputs ==
    {Input([EczemaAnalysis EXCEPT !.topPredictionDefined = FALSE], "session"),
     Input([EczemaAnalysis EXCEPT !.processingInfoDefined = FALSE], "session")}

\* validateInput(data).errors; the timestamp is new Date(), always valid
validateInputErrors(data) ==
    (IF data.analysisResult.isNull
        THEN {"Analysis result is required"}
        ELSE (IF Len(data.analysisResult.predictions) = 0
                THEN {"Analysis result must contain predictions"} ELSE {})
             \cup
             (IF data.analysisResult.overallConfidence < 0
                 \/ data.analysisResult.overallConfidence > 100
                THEN {"Invalid confidence score"} ELSE {}))
    \cup
    (IF data.sessionId = "" THEN {"Session ID is required"} ELSE {})

validateInput(data) == [valid |-> validateInputErrors(data) = {}]

\* extractStructuredData reads analysisResult.processingInfo.modelUsed
extractStructuredDataThrows(data) ==
    ~data.analysisResult.processingInfoDefined

\* assessRiskLevel calls analysisResult.topPrediction.toLowerCase()
assessRiskLevelThrows(analysisResult) ==
    ~analysisResult.topPredictionDefined

HighRiskConditions == {"melanoma", "carcinoma", "cancer"}

assessRiskLevel(analysisResult) ==
    LET requiresUrgentCare == HighRiskConditions \cap analysisResult.topPrediction # {}
    IN  [level |-> IF requiresUrgentCare THEN "high" ELSE analysisResult.riskLevel,
         requiresUrgentCare |-> requiresUrgentCare]

\* ---------------------------------------------------------------- responses
\* the phrases of getMedicalDisclaimer(): '... is NOT a substitute for
\* professional medical advice ... If you have a medical emergency ...'
getMedicalDisclaimer == {"not a substitute", "you have"}

\* determineUrgencyLevel without the branch of the low risk level
determineUrgencyLevelTwoBranches(analysisResult) ==
    LET topCondition == analysisResult.predictions[1]
        riskLevel == analysisResult.riskLevel
    IN  IF riskLevel = "high"
           \/ {"melanoma", "carcinoma"} \cap topCondition.condition # {}
        THEN "immediate"
        ELSE IF topCondition.requiresAttention \/ riskLevel = "moderate"
        THEN "within_week"
        ELSE "routine"

\* getEnhancedMedicalDisclaimer(errorCategory)
getEnhancedMedicalDisclaimer(errorCategory) ==
    {"not a substitute", "you have"}
    \cup (IF errorCategory # "unknown" THEN {"enhanced fallback processing"} ELSE {})

determineUrgencyLevel(analysisResult) ==
    LET topCondition == analysisResult.predictions[1]
        riskLevel == analysisResult.riskLevel
    IN  IF \/ riskLevel = "high"
           \/ "melanoma" \in topCondition.condition
           \/ "carcinoma" \in topCondition.condition
        THEN "immediate"
        ELSE IF topCondition.requiresAttention \/ riskLevel = "moderate"
        THEN "within_week"
        ELSE IF riskLevel = "low" /\ ~topCondition.requiresAttention
        THEN "monitor"
        ELSE "routine"

\* getEmergencyContacts that keeps urgent care for the high risk level
getEmergencyContactsHighOnly(riskLevel) ==
    (IF riskLevel = "high" THEN {"emergency", "urgent_care"} ELSE {})
    \cup {"dermatologist"}

\* the types of the contacts of getEmergencyContacts(riskLevel)
getEmergencyContacts(riskLevel) ==
    (IF riskLevel = "high" THEN {"emergency"} ELSE {})
    \cup {"dermatologist"}
    \cup (IF riskLevel # "low" THEN {"urgent_care"} ELSE {})

\* An answer of the Gemini client: the phrases of the whole text, the phrases
\* of the parts extractSection and extractRecommendations return, and the
\* sections of the answer that have a heading line and a body that is not
\* empty ("assessment", "symptom", "recommendation", "educational").
ContentWith(text, extracted, sections) ==
    [text |-> text, extracted |-> extracted, sections |-> sections]

\* an answer without any section
Content(text, extracted) == ContentWith(text, extracted, {})

\* The text of a field of the consultation is told by where it comes from:
\* "answer" (a part of the external answer), "local" (a local generator),
\* "" (an empty text or null).
\* extractSection: null without the heading line or with an empty body
extractSection(content, sectionType) ==
    IF sectionType \in content.sections THEN "answer" ELSE ""

\* extractRecommendations: null when no list item follows the heading
extractRecommendations(content) ==
    IF "recommendation" \in content.sections THEN <<"answer">> ELSE <<>>

\* a || b on texts
Or(a, b) == IF a # "" THEN a ELSE b

\* generateFallbackAssessment, generateEnhancedFallbackAssessment,
\* generateSymptomCorrelation, generateFallbackRecommendations,
\* generateEnhancedFallbackRecommendations, generateEducationalInfo,
\* generateEnhancedEducationalInfo: each returns a text that is not empty
LocalText == "local"

\* the text of generateSymptomCorrelation without symptoms: 'No symptoms were
\* provided for correlation analysis. ...'
NoSymptomsText == "no symptoms were provided"

\* !symptoms || symptoms.trim().length === 0
NoSymptoms(symptoms) == symptoms = <<>> \/ trim(symptoms) = <<>>

generateSymptomCorrelation(symptoms, analysisResult) ==
    IF NoSymptoms(symptoms) THEN NoSymptomsText ELSE LocalText

\* recommendations.slice(0, n)
Slice(list, n) == SubSeq(list, 1, IF Len(list) < n THEN Len(list) ELSE n)

PainKeyword == <<"p", "a", "i", "n">>
ItchKeyword == <<"i", "t", "c", "h">>

\* the entries of the recommendation lists are told by their first words
RiskRecommendations(riskLevel) ==
    IF riskLevel = "high"
    THEN <<"URGENT: Seek immediate medical attention", "Do not delay",
           "Consider emergency care">>
    ELSE IF riskLevel = "moderate"
    THEN <<"Schedule an appointment", "Monitor the condition closely",
           "Document changes">>
    ELSE <<"Consider consulting a healthcare provider", "Continue monitoring">>

ConditionRecommendations(condition) ==
    IF "eczema" \in condition
    THEN <<"Apply moisturizer", "Identify and avoid triggers",
           "Consider cool compresses", "Use mild cleansers">>
    ELSE IF "psoriasis" \in condition
    THEN <<"Keep skin well-moisturized", "Consider medicated shampoos",
           "Limited sun exposure", "Manage stress levels">>
    ELSE IF "fungal" \in condition
    THEN <<"Keep the affected area clean", "Consider antifungal creams",
           "Wash clothing and bedding", "Avoid sharing personal items">>
    ELSE IF "acne" \in condition
    THEN <<"Use gentle skincare products", "Avoid over-washing",
           "Consider over-the-counter treatments", "Maintain a skincare routine">>
    ELSE IF "melanoma" \in condition \/ "carcinoma" \in condition
    THEN <<"CRITICAL: Contact a dermatologist immediately", "Protect the area from sun",
           "Document the lesion", "Prepare a list of changes">>
    ELSE <<>>

GeneralRecommendations ==
    <<"Take clear photos weekly", "Maintain good skin hygiene", "Use sunscreen daily">>

ErrorRecommendations(errorCategory) ==
    IF errorCategory \in {"network", "service_unavailable"}
    THEN <<"Try the AI consultation again later">>
    ELSE IF errorCategory = "rate_limit"
    THEN <<"AI consultation may be available again in a few minutes">>
    ELSE <<>>

SymptomRecommendations(symptoms) ==
    (IF symptoms # <<>> /\ includes(symptoms, PainKeyword)
        THEN <<"For pain management">> ELSE <<>>)
    \o (IF symptoms # <<>> /\ includes(symptoms, ItchKeyword)
           THEN <<"For itching">> ELSE <<>>)

\* generateEnhancedFallbackRecommendations that returns the whole list
generateEnhancedFallbackRecommendationsUncut(analysisResult, symptoms, errorCategory) ==
    RiskRecommendations(analysisResult.riskLevel)
    \o ConditionRecommendations(analysisResult.predictions[1].condition)
    \o GeneralRecommendations
    \o ErrorRecommendations(errorCategory)
    \o SymptomRecommendations(symptoms)

generateEnhancedFallbackRecommendations(analysisResult, symptoms, errorCategory) ==
    Slice(RiskRecommendations(analysisResult.riskLevel)
          \o ConditionRecommendations(analysisResult.predictions[1].condition)
          \o GeneralRecommendations
          \o ErrorRecommendations(errorCategory)
          \o SymptomRecommendations(symptoms),
          MaxEnhancedRecommendations)

\* generateFallbackRecommendations: two entries for the risk levels 'high' and
\* 'moderate', one otherwise; two for eczema, psoriasis, fungal, acne; two
\* general ones
generateFallbackRecommendations(analysisResult, symptoms) ==
    Slice((IF analysisResult.riskLevel = "high"
              THEN <<"URGENT: Seek immediate medical attention", "Consider emergency care">>
           ELSE IF analysisResult.riskLevel = "moderate"
              THEN <<"Schedule an appointment", "Monitor the condition">>
           ELSE <<"Consider consulting a healthcare provider">>)
          \o (IF {"eczema", "psoriasis", "fungal", "acne"}
                    \cap analysisResult.predictions[1].condition # {}
                 THEN SubSeq(ConditionRecommendations(
                                 analysisResult.predictions[1].condition), 1, 2)
                 ELSE <<>>)
          \o <<"Take photos to monitor changes", "Maintain good skin hygiene">>,
          MaxFallbackRecommendations)

\* a || b on lists (null is the empty list here; extractRecommendations never
\* returns an empty array)
OrList(a, b) == IF a # <<>> THEN a ELSE b

Consultation(text, assessment, correlation, recommendations, urgency, educational, disclaimer) ==
    [text |-> text,
     conditionAssessment |-> assessment,
     symptomCorrelation |-> correlation,
     recommendations |-> recommendations,
     urgencyLevel |-> urgency,
     educationalInfo |-> educational,
     medicalDisclaimer |-> disclaimer]

\* extractUrgencyLevel(content), "" for null
extractUrgencyLevel(content) ==
    IF {"immediate", "urgent", "emergency"} \cap content.text # {} THEN "immediate"
    ELSE IF "within" \in content.text /\ "week" \in content.text THEN "within_week"
    ELSE IF "routine" \in content.text THEN "routine"
    ELSE IF "monitor" \in content.text THEN "monitor"
    ELSE ""

\* parseConsultationContent that takes the sections as the answer has them
parseConsultationContentNoFill(content, input) ==
    LET urgency == IF extractUrgencyLevel(content) # ""
                   THEN extractUrgencyLevel(content)
                   ELSE determineUrgencyLevel(input.analysisResult)
    IN  Consultation(content.extracted \cup {urgency},
                     extractSection(content, "assessment"),
                     extractSection(content, "symptom"),
                     extractRecommendations(content),
                     urgency,
                     extractSection(content, "educational"),
                     getMedicalDisclaimer)

\* parseConsultationContent: text is what the fields other than the
\* disclaimer hold of the answer (the urgency level is one of them)
parseConsultationContent(content, input) ==
    LET urgency == IF extractUrgencyLevel(content) # ""
                   THEN extractUrgencyLevel(content)
                   ELSE determineUrgencyLevel(input.analysisResult)
    IN  Consultation(content.extracted \cup {urgency},
                     Or(extractSection(content, "assessment"), LocalText),
                     Or(extractSection(content, "symptom"),
                        generateSymptomCorrelation(input.symptoms, input.analysisResult)),
                     OrList(extractRecommendations(content),
                            generateFallbackRecommendations(input.analysisResult,
                                                            input.symptoms)),
                     urgency,
                     Or(extractSection(content, "educational"), LocalText),
                     getMedicalDisclaimer)

ProhibitedTerms ==
    {"i diagnose", "you have", "definitely", "certainly is",
     "prescription", "take this medication", "stop taking"}

\* validateSafety: the terms are looked for in JSON.stringify(consultation),
\* which holds every field, the disclaimer included
validateSafety(consultation) ==
    LET content == consultation.text \cup consultation.medicalDisclaimer
        hasProhibitedContent == ProhibitedTerms \cap content # {}
        hasDisclaimer == "not a substitute" \in consultation.medicalDisclaimer
    IN  ~hasProhibitedContent /\ hasDisclaimer

Response(consultation, modelUsed, confidenceScore, fallbackUsed, safetyValidated, contacts) ==
    [consultation |-> consultation,
     metadata |-> [modelUsed |-> modelUsed, confidenceScore |-> confidenceScore,
                   fallbackUsed |-> fallbackUsed, safetyValidated |-> safetyValidated],
     hasEmergencyContacts |-> contacts # {},
     emergencyContacts |-> contacts]

processGeminiResponse(content, input) ==
    LET consultation == parseConsultationContent(content, input)
    IN  Response(consultation, "gemini", input.analysisResult.overallConfidence,
                 FALSE, validateSafety(consultation),
                 getEmergencyContacts(input.analysisResult.riskLevel))

handleFallback(error, input) ==
    LET errorCategory == categorizeError(error)
        urgencyLevel == determineUrgencyLevel(input.analysisResult)
    IN  Response(Consultation({urgencyLevel}, LocalText,
                              generateSymptomCorrelation(input.symptoms,
                                                         input.analysisResult),
                              generateEnhancedFallbackRecommendations(
                                  input.analysisResult, input.symptoms, errorCategory),
                              urgencyLevel, LocalText,
                              getEnhancedMedicalDisclaimer(errorCategory)),
                 "Enhanced Fallback Analysis Engine",
                 input.analysisResult.overallConfidence, TRUE, TRUE,
                 getEmergencyContacts(input.analysisResult.riskLevel))

\* createErrorConsultation: no emergencyContacts property
createErrorConsultation ==
    Response(Consultation({"routine", "you have"}, LocalText, LocalText,
                          <<"Please try again", "Ensure you have a stable internet connection",
                            "Consider consulting a healthcare provider directly",
                            "Save your analysis results">>,
                          "routine", LocalText, getMedicalDisclaimer),
             "Error Handler", 0, TRUE, TRUE, {})

\* the value a slot holds before its call has returned
NoResponse ==
    Response(Consultation({}, "", "", <<>>, "", "", {}),
             "", 0, FALSE, FALSE, {})

\* ------------------------------------------------- Gemini client (pure part)
\* A GeminiAPIClient. apiKey: config.apiKey is not ''; genAI, model: the field
\* holds an object (not null). last: the operation that ran on the client last
\* and what it returned, for the properties.
LastOp(op, ok) == [op |-> op, ok |-> ok]

GeminiAPIClient(apiKey) ==
    [apiKey |-> apiKey, genAI |-> FALSE, model |-> FALSE, isInitialized |-> FALSE,
     last |-> LastOp("new", TRUE)]

\* what the SDK does inside initialize(): both calls return, the constructor
\* GoogleGenerativeAI throws, getGenerativeModel throws
SdkOutcomes == {"ok", "constructor throws", "getGenerativeModel throws"}

\* initialize(): the client after the call; the call returns isInitialized
initialize(c, sdk) ==
    IF ~c.apiKey \/ sdk = "constructor throws"
    THEN [c EXCEPT !.isInitialized = FALSE, !.last = LastOp("initialize", FALSE)]
    ELSE IF sdk = "getGenerativeModel throws"
    THEN [c EXCEPT !.genAI = TRUE, !.isInitialized = FALSE,
                   !.last = LastOp("initialize", FALSE)]
    ELSE [c EXCEPT !.genAI = TRUE, !.model = TRUE, !.isInitialized = TRUE,
                   !.last = LastOp("initialize", TRUE)]

\* the values of settings.apiKey in configureModel(settings): the property is
\* absent, it is '', it is a key
ApiKeySettings == {"absent", "empty", "key"}

\* configureModel that keeps the client initialized
configureModelKeepsInitialized(c, apiKey) ==
    [c EXCEPT !.apiKey = IF apiKey = "absent" THEN @ ELSE apiKey = "key",
              !.last = LastOp("configureModel", TRUE)]

\* configureModel(settings)
configureModel(c, apiKey) ==
    [c EXCEPT !.apiKey = IF apiKey = "absent" THEN @ ELSE apiKey = "key",
              !.isInitialized = FALSE,
              !.last = LastOp("configureModel", TRUE)]

\* reset() of the client
reset(c) ==
    [c EXCEPT !.genAI = FALSE, !.model = FALSE, !.isInitialized = FALSE,
              !.last = LastOp("reset", TRUE)]

\* isReady()
isReady(c) == c.isInitialized /\ c.model

\* A GeminiResponse, and how the promise of sendConsultationRequest settled.
\* content, metadata: the property is there. error: the message, "" for none.
GeminiResponse(settled, success, content, error, metadata) ==
    [settled |-> settled, success |-> success, content |-> content,
     error |-> error, metadata |-> metadata]

NoGeminiResponse == GeminiResponse("pending", FALSE, FALSE, "", FALSE)

\* what is thrown inside the try block of sendConsultationRequest: an Error
\* with its message, or a value that is not an Error ("" for its message)
Thrown(isError, message) == [isError |-> isError, message |-> message]

\* a catch block that lets the error go
SendCatchRethrows(thrown) ==
    GeminiResponse("rejected", FALSE, FALSE, thrown.message, FALSE)

\* the catch block of sendConsultationRequest
SendCatch(thrown) ==
    GeminiResponse("resolved", FALSE, FALSE,
                   IF thrown.isError THEN thrown.message ELSE "Unknown error occurred",
                   TRUE)

\* the return of the try block of sendConsultationRequest
SendReturn == GeminiResponse("resolved", TRUE, TRUE, "", TRUE)

Calls == 1..MaxCalls

\* A sendConsultationRequest call. pc: where it is suspended.
\*   idle         no call yet
\*   initialized  awaiting this.initialize(), which has run
\*   generating   awaiting this.model.generateContent(fullPrompt)
\*   responding   awaiting result.response
\*   done         the promise has settled
IdleCall == [pc |-> "idle", initialized |-> FALSE, result |-> NoGeminiResponse]

\* ------------------------------------------------------------------- reports
\* What getErrorStatistics, isHealthy or getHealthStatus returned. op: the
\* operation ("none": no report is out).
Report(op, healthy, status, statistics) ==
    [op |-> op, healthy |-> healthy, status |-> status, statistics |-> statistics]

NoStatus ==
    [healthy |-> FALSE, circuitBreakerState |-> "", recentErrorCount |-> 0,
     recommendedAction |-> ""]

NoStatistics ==
    [totalErrors |-> 0, recentErrors |-> 0, circuitBreakerState |-> "",
     errorsByCategory |-> {}, lastError |-> ""]

NoReport == Report("none", FALSE, NoStatus, NoStatistics)

\* -------------------------------------------------------------------- state
VARIABLES
    failureCount,     \* CircuitBreaker.failureCount
    lastFailureTime,  \* CircuitBreaker.lastFailureTime
    state,            \* CircuitBreaker.state
    errorHistory,     \* ConsultationEngine.errorHistory
    now,              \* Date.now()
    req,              \* the generateConsultation calls, one per slot
    consecutiveFailures, \* failed executions since the last successful one or reset
    failedRequests,   \* calls returned since the last reset whose execute() threw
    report,           \* what a reporting operation returned, until its caller has it
    client,           \* the GeminiAPIClient
    call              \* the sendConsultationRequest calls on the client

vars == <<failureCount, lastFailureTime, state, errorHistory, now, req,
          consecutiveFailures, failedRequests, report, client, call>>

\* the variables of the engine
engineVars == <<failureCount, lastFailureTime, state, errorHistory, now, req,
                consecutiveFailures, failedRequests>>

\* the variables of the client
clientVars == <<client, call>>

breakerVars == <<failureCount, lastFailureTime, state, consecutiveFailures>>

NoError == Err({}, 0, 0)

\* the events of a trace
FailedAttempt(error) == [kind |-> "call", error |-> error, ms |-> 0]
SuccessfulAttempt == [kind |-> "ok", error |-> NoError, ms |-> 0]
Sleep(ms) == [kind |-> "sleep", error |-> NoError, ms |-> ms]

\* what the breaker showed when the call reached execute()
Entry(st, elapsed) == [state |-> st, elapsed |-> elapsed]
NoEntry == Entry("none", FALSE)

\* A slot. pc: where the call is suspended.
\*   idle       no call yet
\*   attempt    awaiting the client (isReady / initialize / sendConsultationRequest)
\*   backoff    awaiting sleep(delay) of the exponential backoff
\*   ratewait   awaiting sleep(retryAfter) of handleRateLimit
\*   succeeded  generateGeminiConsultation returned, execute() not yet resumed
\*   failed     generateGeminiConsultation threw, execute() not yet resumed
\*   returning  execute() returned, generateConsultation not yet resumed
\*   caught     execute() threw, generateConsultation not yet resumed
\*   done       generateConsultation settled
\* symptoms: the symptoms argument as the caller gave it (input has the
\* sanitized text).
\* trace: what the call did so far, for the properties: the attempts that
\* failed, the one that succeeded, the sleeps.
\* entry: what the breaker showed when the call reached execute().
\* recorded: the error records the call wrote.
IdleSlot ==
    [pc |-> "idle", input |-> EczemaInput, symptoms |-> <<>>,
     attempt |-> 0, lastError |-> NoError,
     wakeAt |-> 0, entry |-> NoEntry, trace |-> <<>>, recorded |-> 0,
     outcome |-> "pending", resp |-> NoResponse]

\* new ConsultationEngine(client)
EngineInit ==
    /\ failureCount = 0
    /\ lastFailureTime = 0
    /\ state = "closed"
    /\ errorHistory = <<>>
    /\ now = 0
    /\ req = [r \in Slots |-> IdleSlot]
    /\ consecutiveFailures = 0
    /\ failedRequests = 0
    /\ report = NoReport

\* an engine on a new client that was given an API key
Init ==
    /\ EngineInit
    /\ client = GeminiAPIClient(TRUE)
    /\ call = [c \in Calls |-> IdleCall]

\* ---------------------------------------------------------- circuit breaker
\* execute(): Date.now() - this.lastFailureTime > this.recoveryTimeout
RecoveryElapsed == now - lastFailureTime > RecoveryTimeout

\* execute() without the test of the recovery timeout
AdmitsWhileNotOpen == state # "open"

\* execute(): the call goes on to the operation
Admits == state # "open" \/ RecoveryElapsed

\* execute(): the state after the check of an admitted call
StateOnAdmit == IF state = "open" THEN "half-open" ELSE state

\* onSuccess() without the reset of the count
OnSuccessKeepsCount ==
    /\ failureCount' = failureCount
    /\ state' = "closed"
    /\ UNCHANGED lastFailureTime

\* onSuccess() that resets the count and leaves the state
OnSuccessKeepsState ==
    /\ failureCount' = 0
    /\ UNCHANGED <<state, lastFailureTime>>

\* onSuccess()
OnSuccess ==
    /\ failureCount' = 0
    /\ state' = "closed"
    /\ UNCHANGED lastFailureTime

\* onFailure() that opens one failure late
StateOnFailureLate(count) == IF count > FailureThreshold THEN "open" ELSE state

\* onFailure(): the state for the incremented count
StateOnFailure(count) == IF count >= FailureThreshold THEN "open" ELSE state

\* onFailure() that writes the count it read before another call failed
OnFailureLostUpdate ==
    /\ failureCount' = IF \E q \in Slots : req[q].pc = "caught"
                       THEN failureCount ELSE failureCount + 1
    /\ lastFailureTime' = now
    /\ state' = StateOnFailure(failureCount')

\* onFailure()
OnFailure ==
    /\ failureCount' = failureCount + 1
    /\ lastFailureTime' = now
    /\ state' = StateOnFailure(failureCount + 1)

\* ------------------------------------------------------------ error tracker
ErrorRecord(error) ==
    [timestamp |-> now, error |-> error.message, category |-> categorizeError(error)]

\* recordError that keeps one record for each category
recordErrorOncePerCategory(error) ==
    IF \E i \in 1..Len(errorHistory) : errorHistory[i].category = categorizeError(error)
    THEN errorHistory
    ELSE Append(errorHistory, ErrorRecord(error))

\* recordError that leaves a full history as it is
recordErrorDropsNewest(error) ==
    IF Len(errorHistory) >= MaxErrorHistory
    THEN errorHistory
    ELSE Append(errorHistory, ErrorRecord(error))

\* recordError: push, then shift once the history is over its capacity
recordError(error) ==
    LET pushed == Append(errorHistory, ErrorRecord(error))
    IN  IF Len(pushed) > MaxErrorHistory THEN Tail(pushed) ELSE pushed

\* getErrorStatistics().totalErrors
totalErrors == Len(errorHistory)

\* the filter of isHealthy and getHealthStatus: Date.now() - record.timestamp < 60000
RecentWindow == 60000
\* recentErrors.length < 3
UnhealthyErrors == 3

recentErrors ==
    SelectSeq(errorHistory, LAMBDA record : now - record.timestamp < RecentWindow)

\* isHealthy() that takes only the closed breaker for healthy
isHealthyClosedOnly ==
    Len(recentErrors) < UnhealthyErrors /\ state = "closed"

\* isHealthy()
isHealthy ==
    Len(recentErrors) < UnhealthyErrors /\ state # "open"

\* getHealthStatus(); both filters read the clock in the same millisecond
getHealthStatus ==
    [healthy |-> isHealthy,
     circuitBreakerState |-> state,
     recentErrorCount |-> Len(recentErrors),
     recommendedAction |->
        IF ~isHealthy /\ state = "open"
        THEN "Service temporarily unavailable - using fallback mode"
        ELSE IF ~isHealthy /\ Len(recentErrors) >= UnhealthyErrors
        THEN "High error rate - monitor service closely"
        ELSE "Service operating normally"]

\* ------------------------------------------------------- generateConsultation
\* a new call takes the first idle slot; the caller of a settled call takes
\* its response before anything else runs
Free(r) ==
    /\ req[r].pc = "idle"
    /\ \A q \in Slots : req[q].pc # "done" /\ (q < r => req[q].pc # "idle")

Running == \A q \in Slots : req[q].pc # "done"

InFlight == Cardinality({q \in Slots : req[q].pc # "idle"})

\* the bound on the error records leaves room for one more call
Room == Len(errorHistory) + InFlight < MaxErrors

\* the outer try without the throw of step 1
ThrowsBeforeCallSkipsValidation(data) ==
    \/ extractStructuredDataThrows(data)
    \/ assessRiskLevelThrows(data.analysisResult)

\* the statements of the outer try before circuitBreaker.execute throw
ThrowsBeforeCall(data) ==
    \/ ~validateInput(data).valid
    \/ extractStructuredDataThrows(data)
    \/ assessRiskLevelThrows(data.analysisResult)

\* an outer catch that throws the error again
OuterCatchRethrows == [outcome |-> "rejected", resp |-> NoResponse]

\* the outer catch: what generateConsultation settles with
OuterCatch == [outcome |-> "resolved", resp |-> createErrorConsultation]

\* step 5 that leaves the flag of a primary response
UpdateMetadataPrimaryFlag(resp, fallbackUsed) ==
    [resp EXCEPT !.metadata.fallbackUsed = FALSE]

\* step 5: metadata = {...metadata, processingTime, fallbackUsed}
UpdateMetadata(resp, fallbackUsed) ==
    [resp EXCEPT !.metadata.fallbackUsed = fallbackUsed]

\* an outer catch that records the error and reports it to the breaker
ErrorConsultationRecords(r, data) ==
    /\ Free(r)
    /\ ThrowsBeforeCall(data)
    /\ req' = [req EXCEPT ![r] =
                 [IdleSlot EXCEPT !.pc = "done", !.input = ConsultationInput(data),
                                  !.symptoms = data.symptoms,
                                  !.outcome = OuterCatch.outcome,
                                  !.resp = OuterCatch.resp]]
    /\ errorHistory' = recordError(UnknownError)
    /\ OnFailure
    /\ UNCHANGED <<consecutiveFailures, now, failedRequests>>
    /\ UNCHANGED <<report, clientVars>>

\* a call that throws before the circuit breaker: it runs to its end at once
ErrorConsultation(r, data) ==
    /\ Free(r)
    /\ ThrowsBeforeCall(data)
    /\ req' = [req EXCEPT ![r] =
                 [IdleSlot EXCEPT !.pc = "done", !.input = ConsultationInput(data),
                                  !.symptoms = data.symptoms,
                                  !.outcome = OuterCatch.outcome,
                                  !.resp = OuterCatch.resp]]
    /\ UNCHANGED <<breakerVars, errorHistory, now, failedRequests>>
    /\ UNCHANGED <<report, clientVars>>

\* a call the breaker admits: the first attempt of the retry loop starts
AdmitCall(r, data) ==
    /\ Free(r)
    /\ ~ThrowsBeforeCall(data)
    /\ Admits
    /\ state' = StateOnAdmit
    /\ req' = [req EXCEPT ![r] =
                 [IdleSlot EXCEPT !.pc = "attempt", !.input = ConsultationInput(data),
                                  !.symptoms = data.symptoms, !.attempt = 1,
                                  !.entry = Entry(state, RecoveryElapsed)]]
    /\ UNCHANGED <<failureCount, lastFailureTime, consecutiveFailures,
                   errorHistory, now, failedRequests>>
    /\ UNCHANGED <<report, clientVars>>

\* the same while the bound on the error records leaves room
Admit(r, data) == Room /\ AdmitCall(r, data)

\* a rejection that the breaker takes for a failure: the open window starts
\* again
RejectCallExtendsWindow(r, data) ==
    /\ Free(r)
    /\ ~ThrowsBeforeCall(data)
    /\ ~Admits
    /\ req' = [req EXCEPT ![r] =
                 [IdleSlot EXCEPT !.pc = "caught", !.input = ConsultationInput(data),
                                  !.symptoms = data.symptoms,
                                  !.lastError = CircuitOpenError,
                                  !.entry = Entry(state, RecoveryElapsed)]]
    /\ lastFailureTime' = now
    /\ failureCount' = failureCount + 1
    /\ UNCHANGED <<state, consecutiveFailures, errorHistory, now, failedRequests>>
    /\ UNCHANGED <<report, clientVars>>

\* a call the open breaker rejects: execute() throws at once
RejectCall(r, data) ==
    /\ Free(r)
    /\ ~ThrowsBeforeCall(data)
    /\ ~Admits
    /\ req' = [req EXCEPT ![r] =
                 [IdleSlot EXCEPT !.pc = "caught", !.input = ConsultationInput(data),
                                  !.symptoms = data.symptoms,
                                  !.lastError = CircuitOpenError,
                                  !.entry = Entry(state, RecoveryElapsed)]]
    /\ UNCHANGED <<breakerVars, errorHistory, now, failedRequests>>
    /\ UNCHANGED <<report, clientVars>>

\* the same while the bound on the error records leaves room
Reject(r, data) == Room /\ RejectCall(r, data)

\* ----------------------------------------------------------------- retry loop
\* the catch block of one attempt: what the loop does with the error
RetryDecision(error, attempt) ==
    IF isRateLimitError(error) THEN "ratewait"
    ELSE IF isAuthenticationError(error) THEN "throw"
    ELSE IF attempt < MaxRetries THEN "backoff"
    ELSE "exhausted"

\* a loop that goes on after an answer while attempts are left
AttemptSucceedsGoesOn(r, content) ==
    /\ Running
    /\ req[r].pc = "attempt"
    /\ LET last == req[r].attempt >= MaxRetries
       IN  req' = [req EXCEPT
                ![r].pc = IF last THEN "succeeded" ELSE "backoff",
                ![r].wakeAt = IF last THEN @ ELSE now + BackoffDelay(req[r].attempt),
                ![r].trace = IF last THEN Append(@, SuccessfulAttempt)
                             ELSE @ \o <<SuccessfulAttempt,
                                         Sleep(BackoffDelay(req[r].attempt))>>,
                ![r].resp = processGeminiResponse(content, req[r].input)]
    /\ UNCHANGED <<breakerVars, errorHistory, now, failedRequests>>
    /\ UNCHANGED <<report, clientVars>>

\* the client answers success: true; processGeminiResponse, return
AttemptSucceeds(r, content) ==
    /\ Running
    /\ req[r].pc = "attempt"
    /\ req' = [req EXCEPT ![r].pc = "succeeded",
                          ![r].trace = Append(@, SuccessfulAttempt),
                          ![r].resp = processGeminiResponse(content, req[r].input)]
    /\ UNCHANGED <<breakerVars, errorHistory, now, failedRequests>>
    /\ UNCHANGED <<report, clientVars>>

\* a loop that reports every failed attempt to the breaker
AttemptFailsCounts(r, error) ==
    /\ Running
    /\ req[r].pc = "attempt"
    /\ LET decision == RetryDecision(error, req[r].attempt)
           delay == IF decision = "ratewait" THEN RateLimitWait(error)
                    ELSE BackoffDelay(req[r].attempt)
           sleeps == decision \in {"ratewait", "backoff"}
       IN  req' = [req EXCEPT
                ![r].lastError = error,
                ![r].pc = IF sleeps THEN decision ELSE "failed",
                ![r].wakeAt = IF sleeps THEN now + delay ELSE @,
                ![r].trace = IF sleeps
                             THEN @ \o <<FailedAttempt(error), Sleep(delay)>>
                             ELSE Append(@, FailedAttempt(error))]
    /\ OnFailure
    /\ UNCHANGED <<consecutiveFailures, errorHistory, now, failedRequests>>
    /\ UNCHANGED <<report, clientVars>>

\* the attempt throws error: the client is not ready and initialize() fails,
\* the client throws, or it answers success: false with that message
AttemptFails(r, error) ==
    /\ Running
    /\ req[r].pc = "attempt"
    /\ LET decision == RetryDecision(error, req[r].attempt)
           delay == IF decision = "ratewait" THEN RateLimitWait(error)
                    ELSE BackoffDelay(req[r].attempt)
           sleeps == decision \in {"ratewait", "backoff"}
       IN  req' = [req EXCEPT
                ![r].lastError = error,
                ![r].pc = IF sleeps THEN decision ELSE "failed",
                ![r].wakeAt = IF sleeps THEN now + delay ELSE @,
                ![r].trace = IF sleeps
                             THEN @ \o <<FailedAttempt(error), Sleep(delay)>>
                             ELSE Append(@, FailedAttempt(error))]
    /\ UNCHANGED <<breakerVars, errorHistory, now, failedRequests>>
    /\ UNCHANGED <<report, clientVars>>

Sleeping(r) == req[r].pc \in {"backoff", "ratewait"}

\* a loop whose wait for the rate limit goes back to the same attempt
TimerFiresSameAttempt(r) ==
    /\ Running
    /\ Sleeping(r)
    /\ \A q \in Slots : Sleeping(q) => req[r].wakeAt <= req[q].wakeAt
    /\ now' = Max(now, req[r].wakeAt)
    /\ LET next == IF req[r].pc = "ratewait" THEN req[r].attempt
                   ELSE req[r].attempt + 1
       IN  req' = [req EXCEPT
                ![r].attempt = next,
                ![r].pc = IF next <= MaxRetries THEN "attempt" ELSE "failed"]
    /\ UNCHANGED <<breakerVars, errorHistory, failedRequests>>
    /\ UNCHANGED <<report, clientVars>>

\* the timer of a sleep fires (timers fire in the order of their times): the
\* loop goes to its next iteration, or ends and throws lastError
TimerFires(r) ==
    /\ Running
    /\ Sleeping(r)
    /\ \A q \in Slots : Sleeping(q) => req[r].wakeAt <= req[q].wakeAt
    /\ now' = Max(now, req[r].wakeAt)
    /\ req' = [req EXCEPT
                ![r].attempt = @ + 1,
                ![r].pc = IF req[r].attempt + 1 <= MaxRetries THEN "attempt" ELSE "failed"]
    /\ UNCHANGED <<breakerVars, errorHistory, failedRequests>>
    /\ UNCHANGED <<report, clientVars>>

\* execute() resumes after the operation returned
BreakerSuccess(r) ==
    /\ Running
    /\ req[r].pc = "succeeded"
    /\ OnSuccess
    /\ consecutiveFailures' = 0
    /\ req' = [req EXCEPT ![r].pc = "returning"]
    /\ UNCHANGED <<errorHistory, now, failedRequests>>
    /\ UNCHANGED <<report, clientVars>>

\* execute() resumes after the operation threw
BreakerFailure(r) ==
    /\ Running
    /\ req[r].pc = "failed"
    /\ OnFailure
    /\ consecutiveFailures' = consecutiveFailures + 1
    /\ req' = [req EXCEPT ![r].pc = "caught"]
    /\ UNCHANGED <<errorHistory, now, failedRequests>>
    /\ UNCHANGED <<report, clientVars>>

\* a return that treats an answer the validator rejects as a failure of the
\* call
ReturnPrimaryDiverts(r) ==
    /\ Running
    /\ req[r].pc = "returning"
    /\ LET unsafe == ~req[r].resp.metadata.safetyValidated
       IN  /\ errorHistory' = IF unsafe THEN recordError(NoError) ELSE errorHistory
           /\ req' = [req EXCEPT
                  ![r].pc = "done", ![r].outcome = "resolved",
                  ![r].recorded = IF unsafe THEN @ + 1 ELSE @,
                  ![r].resp = IF unsafe
                              THEN UpdateMetadata(handleFallback(NoError, req[r].input), TRUE)
                              ELSE UpdateMetadata(@, FALSE)]
    /\ UNCHANGED <<breakerVars, now, failedRequests>>
    /\ UNCHANGED <<report, clientVars>>

\* generateConsultation resumes after execute() returned: step 5, return
ReturnPrimary(r) ==
    /\ Running
    /\ req[r].pc = "returning"
    /\ req' = [req EXCEPT ![r].pc = "done", ![r].outcome = "resolved",
                          ![r].resp = UpdateMetadata(@, FALSE)]
    /\ UNCHANGED <<breakerVars, errorHistory, now, failedRequests>>
    /\ UNCHANGED <<report, clientVars>>

\* generateConsultation resumes after execute() threw: the inner catch
\* (recordError, handleFallback), step 5, return
ReturnFallback(r) ==
    /\ Running
    /\ req[r].pc = "caught"
    /\ errorHistory' = recordError(req[r].lastError)
    /\ req' = [req EXCEPT ![r].pc = "done", ![r].outcome = "resolved",
                          ![r].recorded = @ + 1,
                          ![r].resp = UpdateMetadata(
                              handleFallback(req[r].lastError, req[r].input), TRUE)]
    /\ failedRequests' = failedRequests + 1
    /\ UNCHANGED <<breakerVars, now>>
    /\ UNCHANGED <<report, clientVars>>

\* the caller has the response: the slot is idle again
Receive(r) ==
    /\ req[r].pc = "done"
    /\ req' = [req EXCEPT ![r] = IdleSlot]
    /\ UNCHANGED <<breakerVars, errorHistory, now, failedRequests>>
    /\ UNCHANGED <<report, clientVars>>

\* resetErrorTracking() without CircuitBreaker.reset()
ResetErrorTrackingHistoryOnly ==
    /\ Running
    /\ errorHistory' = <<>>
    /\ failedRequests' = 0
    /\ UNCHANGED <<breakerVars, now, req>>
    /\ UNCHANGED <<report, clientVars>>

\* resetErrorTracking(): the history is emptied, CircuitBreaker.reset()
ResetErrorTracking ==
    /\ Running
    /\ errorHistory' = <<>>
    /\ failureCount' = 0
    /\ state' = "closed"
    /\ lastFailureTime' = 0
    /\ consecutiveFailures' = 0
    /\ failedRequests' = 0
    /\ UNCHANGED <<now, req>>
    /\ UNCHANGED <<report, clientVars>>

\* a call that is awaiting the client or a timer, not a resumption that is
\* already queued
Waiting(r) == req[r].pc \in {"idle", "attempt", "backoff", "ratewait"}

\* one recovery timeout passes; queued resumptions run before the clock moves
Tick ==
    /\ \A q \in Slots : Waiting(q)
    /\ now + RecoveryTimeout <= MaxTime
    /\ now' = now + RecoveryTimeout
    /\ UNCHANGED <<breakerVars, errorHistory, req, failedRequests>>
    /\ UNCHANGED <<report, clientVars>>

\* ---------------------------------------------------------------- reporting
\* the filter of getErrorStatistics: Date.now() - record.timestamp < 300000
StatisticsWindow == 300000

\* the categories that have a record in the history
RecordedCategories == {errorHistory[i].category : i \in 1..Len(errorHistory)}

\* getErrorStatistics(): the value it returns; lastError is "" for undefined
getErrorStatistics ==
    [totalErrors |-> totalErrors,
     recentErrors |->
        Len(SelectSeq(errorHistory,
                      LAMBDA record : now - record.timestamp < StatisticsWindow)),
     circuitBreakerState |-> state,
     errorsByCategory |->
        {<<category,
           Cardinality({i \in 1..Len(errorHistory) :
                            errorHistory[i].category = category})>> :
            category \in RecordedCategories},
     lastError |-> IF errorHistory = <<>> THEN ""
                   ELSE errorHistory[Len(errorHistory)]]

\* the caller reads one report at a time
GetErrorStatistics ==
    /\ report = NoReport
    /\ report' = Report("getErrorStatistics", FALSE, NoStatus, getErrorStatistics)
    /\ UNCHANGED <<engineVars, clientVars>>

IsHealthy ==
    /\ report = NoReport
    /\ report' = Report("isHealthy", isHealthy, NoStatus, NoStatistics)
    /\ UNCHANGED <<engineVars, clientVars>>

\* getHealthStatus() that probes the breaker as execute() does
GetHealthStatusProbes ==
    /\ report = NoReport
    /\ report' = Report("getHealthStatus", FALSE, getHealthStatus, NoStatistics)
    /\ state' = IF state = "open" /\ RecoveryElapsed THEN "half-open" ELSE state
    /\ UNCHANGED <<failureCount, lastFailureTime, errorHistory, now, req,
                   consecutiveFailures, failedRequests, clientVars>>

GetHealthStatus ==
    /\ report = NoReport
    /\ report' = Report("getHealthStatus", FALSE, getHealthStatus, NoStatistics)
    /\ UNCHANGED <<engineVars, clientVars>>

\* the caller has read the report
ReceiveReport ==
    /\ report # NoReport
    /\ report' = NoReport
    /\ UNCHANGED <<engineVars, clientVars>>

\* ------------------------------------------------------------ Gemini client
\* await client.initialize(): the function has no await of its own, it runs
\* to its return in one step
Initialize(sdk) ==
    /\ client' = initialize(client, sdk)
    /\ UNCHANGED <<call, engineVars, report>>

ConfigureModel(apiKey) ==
    /\ client' = configureModel(client, apiKey)
    /\ UNCHANGED <<call, engineVars, report>>

ClientReset ==
    /\ client' = reset(client)
    /\ UNCHANGED <<call, engineVars, report>>

InitializationFailed == Thrown(TRUE, "Failed to initialize Gemini client")
ModelNotInitialized == Thrown(TRUE, "Gemini model not initialized")

\* what generateContent, result.response or response.text() throw: an Error
\* of the provider, a value that is not an Error
ProviderErrors == {Thrown(TRUE, "API request failed"), Thrown(FALSE, "")}

\* the promise of the call settles with this value
Settle(c, result) == call' = [call EXCEPT ![c].pc = "done", ![c].result = result]

\* sendConsultationRequest(request) up to its first await: initialize() of a
\* client that is not initialized runs inside the call; an initialized client
\* goes on to generateContent
SendStart(c, sdk) ==
    /\ call[c].pc = "idle"
    /\ IF ~client.isInitialized
       THEN /\ client' = initialize(client, sdk)
            /\ call' = [call EXCEPT ![c].pc = "initialized",
                                    ![c].initialized = client'.isInitialized]
       ELSE /\ UNCHANGED client
            /\ IF ~client.model
               THEN Settle(c, SendCatch(ModelNotInitialized))
               ELSE call' = [call EXCEPT ![c].pc = "generating"]
    /\ UNCHANGED <<engineVars, report>>

\* the call resumes with the value of initialize()
SendAfterInit(c) ==
    /\ call[c].pc = "initialized"
    /\ IF ~call[c].initialized
       THEN Settle(c, SendCatch(InitializationFailed))
       ELSE IF ~client.model
       THEN Settle(c, SendCatch(ModelNotInitialized))
       ELSE call' = [call EXCEPT ![c].pc = "generating"]
    /\ UNCHANGED <<client, engineVars, report>>

\* generateContent resolves
GenerateResolves(c) ==
    /\ call[c].pc = "generating"
    /\ call' = [call EXCEPT ![c].pc = "responding"]
    /\ UNCHANGED <<client, engineVars, report>>

\* generateContent rejects
GenerateRejects(c, thrown) ==
    /\ call[c].pc = "generating"
    /\ Settle(c, SendCatch(thrown))
    /\ UNCHANGED <<client, engineVars, report>>

\* result.response resolves and response.text() returns
ResponseResolves(c) ==
    /\ call[c].pc = "responding"
    /\ Settle(c, SendReturn)
    /\ UNCHANGED <<client, engineVars, report>>

\* result.response rejects or response.text() throws
ResponseRejects(c, thrown) ==
    /\ call[c].pc = "responding"
    /\ Settle(c, SendCatch(thrown))
    /\ UNCHANGED <<client, engineVars, report>>

\* the caller has the value of the call
CallReturns(c) ==
    /\ call[c].pc = "done"
    /\ call' = [call EXCEPT ![c] = IdleCall]
    /\ UNCHANGED <<client, engineVars, report>>

\* ------------------------------------------------------------ specifications
BlankSessionInput == Input(EczemaAnalysis, "")
NoTopPredictionInput ==
    Input([EczemaAnalysis EXCEPT !.topPredictionDefined = FALSE], "session")
CoreInputs == {EczemaInput, BlankSessionInput, NoTopPredictionInput}
CoreErrors == {AuthError}
PlainContent == Content({}, {})
CoreContents == {PlainContent}

Next ==
    \/ \E r \in Slots, data \in CoreInputs : ErrorConsultation(r, data)
    \/ \E r \in Slots, data \in CoreInputs : Admit(r, data)
    \/ \E r \in Slots, data \in CoreInputs : Reject(r, data)
    \/ \E r \in Slots, content \in CoreContents : AttemptSucceeds(r, content)
    \/ \E r \in Slots, error \in CoreErrors : AttemptFails(r, error)
    \/ \E r \in Slots : BreakerSuccess(r)
    \/ \E r \in Slots : BreakerFailure(r)
    \/ \E r \in Slots : ReturnPrimary(r)
    \/ \E r \in Slots : ReturnFallback(r)
    \/ \E r \in Slots : Receive(r)
    \/ Tick

\* Concurrent calls whose attempts succeed or fail without a sleep (an attempt
\* that succeeds, an authentication error): the circuit breaker and the error
\* history under every interleaving of the calls.
Spec == Init /\ [][Next]_vars

\* The same with the maintenance operation.
NextReset == Next \/ ResetErrorTracking

SpecReset == Init /\ [][NextReset]_vars

\* a prediction with the confidence 1.5
PredictionConfidenceInput ==
    Input(Analysis(<<PredictionWith({"eczema"}, TRUE, 150)>>, {"eczema"}, 85, "moderate"),
          "session")

AllInputs ==
    WellFormedInputs \cup RejectedInputs \cup MalformedInputs
    \cup {PredictionConfidenceInput}
AllErrors ==
    {NetworkError, InitError, AuthError, RateLimitError, RateLimitErrorAfter,
     AuthQuotaError}
AllContents ==
    {PlainContent,
     Content({"routine"}, {}),
     Content({"monitor", "definitely"}, {"definitely"}),
     Content({"within", "week", "prescription"}, {}),
     ContentWith({"assessment", "monitor"}, {}, {"assessment"}),
     ContentWith({"routine"}, {},
                 {"assessment", "symptom", "recommendation", "educational"})}

\* the engine is as constructed: no failure on record, the clock at its start
Fresh == errorHistory = <<>> /\ failureCount = 0 /\ now = 0

\* One call at a time on an engine as constructed, with every input, every
\* error and every answer of the client: the retry loop and the response of
\* each path.
NextRetry ==
    \/ \E data \in AllInputs : ErrorConsultation(1, data)
    \/ \E data \in AllInputs : Fresh /\ Admit(1, data)
    \/ \E content \in AllContents : AttemptSucceeds(1, content)
    \/ \E error \in AllErrors : AttemptFails(1, error)
    \/ TimerFires(1)
    \/ BreakerSuccess(1)
    \/ BreakerFailure(1)
    \/ ReturnPrimary(1)
    \/ ReturnFallback(1)
    \/ Receive(1)

SpecRetry == Init /\ [][NextRetry]_vars

\* a step of the call in slot r: the client settles the attempt, a timer
\* fires, a continuation that is queued runs
CallStep(r) ==
    \/ \E content \in AllContents : AttemptSucceeds(r, content)
    \/ \E error \in AllErrors : AttemptFails(r, error)
    \/ TimerFires(r)
    \/ BreakerSuccess(r)
    \/ BreakerFailure(r)
    \/ ReturnPrimary(r)
    \/ ReturnFallback(r)

\* The same where every attempt has an outcome, every timer fires and every
\* continuation runs.
SpecRetryLive == SpecRetry /\ WF_vars(CallStep(1))

\* the bound on the failed requests of the counting runs
CountRoom == failedRequests < MaxCountedFailures

CountedErrors == {AuthError, NetworkError, RateLimitError}

\* One call after the other on an engine as constructed, each ending with an
\* answer, with an authentication error on its first attempt or with network
\* or rate-limit errors on its three attempts, until the breaker is open and
\* rejects. The answers come on first attempts and the attempts of one call
\* fail with the same error, so that the clock moves with the failed requests
\* only, by the sleeps of one kind of error.
NextCount ==
    \/ CountRoom /\ AdmitCall(1, EczemaInput)
    \/ CountRoom /\ RejectCall(1, EczemaInput)
    \/ req[1].attempt = 1 /\ AttemptSucceeds(1, PlainContent)
    \/ \E error \in CountedErrors :
          /\ req[1].attempt = 1 \/ error = req[1].lastError
          /\ AttemptFails(1, error)
    \/ TimerFires(1)
    \/ BreakerSuccess(1)
    \/ BreakerFailure(1)
    \/ ReturnPrimary(1)
    \/ ReturnFallback(1)
    \/ Receive(1)

SpecCount == Init /\ [][NextCount]_vars

\* the bound on the failed requests of the recovery runs
RecoveryRoom == failedRequests < MaxRecoveryFailures

\* a request arrives at the breaker
Arrival(r) ==
    \/ AdmitCall(r, EczemaInput)
    \/ RecoveryRoom /\ RejectCall(r, EczemaInput)

\* a step of the call in slot r and of its caller
RecoveryStep(r) ==
    \/ AttemptSucceeds(r, PlainContent)
    \/ RecoveryRoom /\ AttemptFails(r, AuthError)
    \/ BreakerSuccess(r)
    \/ BreakerFailure(r)
    \/ ReturnPrimary(r)
    \/ ReturnFallback(r)
    \/ Receive(r)

\* One call after the other while the clock moves: failures open the breaker,
\* it rejects, and calls after the recovery timeout are its trials.
NextRecovery == Arrival(1) \/ RecoveryStep(1) \/ Tick

\* Time passes, requests keep arriving, every attempt has an outcome and every
\* continuation runs.
SpecRecovery ==
    /\ Init /\ [][NextRecovery]_vars
    /\ SF_vars(Tick)
    /\ SF_vars(Arrival(1))
    /\ WF_vars(RecoveryStep(1))

\* the bound on the failed requests leaves room for one more call
HistoryRoom == failedRequests < MaxFailedRequests

\* One call at a time, each ending with a success or with an authentication
\* error, until the breaker is open and rejects: the error history up to its
\* capacity and beyond.
NextHistory ==
    \/ HistoryRoom /\ AdmitCall(1, EczemaInput)
    \/ HistoryRoom /\ RejectCall(1, EczemaInput)
    \/ AttemptSucceeds(1, PlainContent)
    \/ AttemptFails(1, AuthError)
    \/ BreakerSuccess(1)
    \/ BreakerFailure(1)
    \/ ReturnPrimary(1)
    \/ ReturnFallback(1)
    \/ Receive(1)

SpecHistory == Init /\ [][NextHistory]_vars

\* the bound on the failed requests of the reporting runs
ReportRoom == failedRequests < MaxReportedFailures

\* One call at a time, each ending with a success or with an authentication
\* error, while the clock moves and the caller asks for the reports between
\* the steps of the call.
NextReport ==
    \/ ReportRoom /\ AdmitCall(1, EczemaInput)
    \/ ReportRoom /\ RejectCall(1, EczemaInput)
    \/ AttemptSucceeds(1, PlainContent)
    \/ AttemptFails(1, AuthError)
    \/ BreakerSuccess(1)
    \/ BreakerFailure(1)
    \/ ReturnPrimary(1)
    \/ ReturnFallback(1)
    \/ Receive(1)
    \/ Tick
    \/ GetErrorStatistics
    \/ IsHealthy
    \/ GetHealthStatus
    \/ ReceiveReport

SpecReport == Init /\ [][NextReport]_vars

\* new GeminiAPIClient(config): with an API key from the environment or the
\* config, or without one
InitClient ==
    /\ EngineInit
    /\ client \in {GeminiAPIClient(apiKey) : apiKey \in BOOLEAN}
    /\ call = [c \in Calls |-> IdleCall]

\* The client on its own: its operations in any order, between the steps of
\* the sendConsultationRequest calls that are in flight.
NextClient ==
    \/ \E sdk \in SdkOutcomes : Initialize(sdk)
    \/ \E apiKey \in ApiKeySettings : ConfigureModel(apiKey)
    \/ ClientReset
    \/ \E c \in Calls, sdk \in SdkOutcomes : SendStart(c, sdk)
    \/ \E c \in Calls : SendAfterInit(c)
    \/ \E c \in Calls : GenerateResolves(c)
    \/ \E c \in Calls, thrown \in ProviderErrors : GenerateRejects(c, thrown)
    \/ \E c \in Calls : ResponseResolves(c)
    \/ \E c \in Calls, thrown \in ProviderErrors : ResponseRejects(c, thrown)
    \/ \E c \in Calls : CallReturns(c)

SpecClient == InitClient /\ [][NextClient]_vars

\* the names the recommendation table knows, and one it does not
RecommendationNames ==
    {{"eczema"}, {"psoriasis"}, {"fungal"}, {"acne"}, {"melanoma"},
     {"carcinoma", "cancer"}, {"healthy"}}

\* symptoms: '', 'pain', 'Itchy', 'itchy pain'
KeywordSymptoms ==
    {<<>>, PainKeyword, <<"I", "t", "c", "h", "y">>,
     ItchKeyword \o <<"y", " ">> \o PainKeyword}

FallbackInputs ==
    {InputWith(Analysis(<<Prediction(n, TRUE)>>, n, 85, risk), symptoms, "session")
        : n \in RecommendationNames, risk \in RiskLevels, symptoms \in KeywordSymptoms}

\* an error of each category
FallbackErrors ==
    {NetworkError, AuthError, RateLimitError, ServiceError, UnknownError}

\* One call on an engine as constructed whose every attempt fails, for every
\* risk level, condition name, symptom keyword and error category: the
\* response of the fallback generator.
NextFallback ==
    \/ \E data \in FallbackInputs : Fresh /\ Admit(1, data)
    \/ \E error \in FallbackErrors : AttemptFails(1, error)
    \/ TimerFires(1)
    \/ BreakerFailure(1)
    \/ ReturnFallback(1)
    \/ Receive(1)

SpecFallback == Init /\ [][NextFallback]_vars

\* pieces of symptom texts: a word, a space, tags, schemes and parts of them,
\* the parts of an event handler
SymptomFragments ==
    {<<"i", "t", "c", "h", "y">>,
     <<" ">>,
     <<"<", "b", ">">>,
     <<"<", "s", "c", "r", "i", "p", "t", ">">>,
     <<"<", "/", "s", "c", "r", "i", "p", "t", ">">>,
     <<"j", "a", "v", "a">>,
     <<"s", "c", "r", "i", "p", "t", ":">>,
     <<"J", "a", "v", "a", "s", "c", "r", "i", "p", "t", ":">>,
     <<"d", "a", "t", "a", ":">>,
     <<"o", "n">>,
     <<"c", "l", "i", "c", "k", " ", "=">>,
     <<"v", "b">>}

\* the texts of at most k pieces
RECURSIVE Concatenations(_)
Concatenations(k) ==
    IF k = 0 THEN {<<>>}
    ELSE LET shorter == Concatenations(k - 1)
         IN  shorter \cup {t \o f : t \in shorter, f \in SymptomFragments}

SymptomTexts == Concatenations(MaxFragments)

\* One call on an engine as constructed for every symptom text, answered or
\* failed by the client: the sanitized symptoms of the ConsultationInput.
NextSanitize ==
    \/ \E symptoms \in SymptomTexts :
          Fresh /\ Admit(1, InputWith(EczemaAnalysis, symptoms, "session"))
    \/ AttemptSucceeds(1, PlainContent)
    \/ AttemptFails(1, AuthError)
    \/ BreakerSuccess(1)
    \/ BreakerFailure(1)
    \/ ReturnPrimary(1)
    \/ ReturnFallback(1)
    \/ Receive(1)

SpecSanitize == Init /\ [][NextSanitize]_vars

\* ------------------------------------------------------------------ properties
UrgencyLevels == {"immediate", "within_week", "routine", "monitor"}

ModelsUsed == {"gemini", "Enhanced Fallback Analysis Engine", "Error Handler"}

IsConsultationResponse(resp) ==
    /\ resp.metadata.modelUsed \in ModelsUsed
    /\ resp.consultation.urgencyLevel \in UrgencyLevels
    /\ resp.consultation.medicalDisclaimer # {}

Settled(r) == req[r].pc = "done"

\* the call went through the steps before the circuit breaker
ReachedBreaker(r) == req[r].entry # NoEntry

Attempts(tr) == SelectSeq(tr, LAMBDA e : e.kind = "call")

HasSuccess(tr) == \E i \in 1..Len(tr) : tr[i].kind = "ok"

IsGeneric(error) == ~isRateLimitError(error) /\ ~isAuthenticationError(error)

\* the retry loop of the call is over
LoopOver(r) == req[r].pc \in {"failed", "succeeded", "returning", "caught", "done"}

\* C1: generateConsultation never throws and never rejects: a call that has
\* settled has resolved with a consultation response, whatever the input, the
\* client and the circuit breaker did; a call that has not settled is pending.
NeverRejects ==
    \A r \in Slots :
        /\ req[r].outcome \in {"pending", "resolved"}
        /\ Settled(r) => req[r].outcome = "resolved" /\ IsConsultationResponse(req[r].resp)
        /\ ~Settled(r) => req[r].outcome = "pending"

\* while the breaker is open, a call whose input has no topPrediction (the
\* TypeError of assessRiskLevel) has settled with the error consultation
NeverRejectsWitness ==
    /\ state = "open"
    /\ \E r \in Slots :
          /\ Settled(r)
          /\ req[r].input = NoTopPredictionInput
          /\ req[r].outcome = "resolved"
          /\ req[r].resp.metadata.modelUsed = "Error Handler"

\* C2, first part: the execution whose failure makes FailureThreshold consecutive
\* failed executions leaves the breaker open
OpensAtThreshold ==
    \A r \in Slots :
        (req[r].pc = "failed" /\ req'[r].pc = "caught"
            /\ consecutiveFailures' >= FailureThreshold)
        => state' = "open"

\* C2, second part: a call that reaches the breaker while it is open and the
\* recovery timeout has not elapsed is thrown the 'circuit open' error at once
RejectsWhileOpen ==
    \A r \in Slots :
        (req[r].pc = "idle" /\ req'[r].pc # "idle"
            /\ ~ThrowsBeforeCall(req'[r].input)
            /\ state = "open" /\ now - lastFailureTime <= RecoveryTimeout)
        => /\ req'[r].pc = "caught"
           /\ req'[r].lastError = CircuitOpenError
           /\ req'[r].trace = <<>>
           /\ state' = "open"

\* a call rejected by the open breaker never invokes the operation
RejectedNeverInvokes ==
    \A r \in Slots :
        (req[r].entry.state = "open" /\ ~req[r].entry.elapsed)
        => /\ req[r].trace = <<>>
           /\ req[r].pc \in {"caught", "done"}
           /\ req[r].lastError = CircuitOpenError

\* C2: after FailureThreshold consecutive failed executions the breaker is
\* open, and a call made while it is open, before the recovery timeout has
\* elapsed, is rejected with the 'circuit open' error without the operation
\* being invoked.
OpensAndRejects ==
    /\ [][OpensAtThreshold /\ RejectsWhileOpen]_vars
    /\ [](consecutiveFailures >= FailureThreshold => state \in {"open", "half-open"})
    /\ []RejectedNeverInvokes

\* five failed executions in a row, the breaker open, and a call it rejected
OpensAndRejectsWitness ==
    /\ state = "open"
    /\ consecutiveFailures = FailureThreshold
    /\ failureCount = FailureThreshold
    /\ \E r \in Slots :
          /\ req[r].pc = "caught"
          /\ req[r].entry = Entry("open", FALSE)
          /\ req[r].lastError = CircuitOpenError
          /\ req[r].trace = <<>>

\* a call admitted while the breaker recovers, its operation not yet over
OnTrial(r) ==
    /\ req[r].pc \in {"attempt", "backoff", "ratewait"}
    /\ req[r].entry.state \in {"open", "half-open"}

\* C3: the breaker admits exactly one trial execution in the half-open state,
\* however many requests arrive: no two calls admitted by the recovering
\* breaker are in their operation at the same time.
OneTrialExecution ==
    Cardinality({r \in Slots : OnTrial(r)}) <= 1

\* C10: an execution that succeeds after the breaker admitted it (in the closed
\* state, as the trial that makes it half-open, or in the half-open state)
\* leaves the failure count at 0 and the state closed.
SuccessCloses ==
    [][\A r \in Slots :
          (req[r].pc = "succeeded" /\ req'[r].pc = "returning"
              /\ req[r].entry.state \in {"closed", "half-open", "open"})
          => failureCount' = 0 /\ state' = "closed"]_vars

\* the trial admitted after the recovery timeout has succeeded: the breaker,
\* open with five failures on its count before, is closed with none
SuccessClosesWitness ==
    /\ state = "closed"
    /\ failureCount = 0
    /\ lastFailureTime > 0
    /\ \E r \in Slots :
          /\ req[r].pc = "returning"
          /\ req[r].entry = Entry("open", TRUE)

\* C4: an authentication error is never retried, and the authentication check
\* goes before the rate-limit check: an attempt that ended with an error that
\* is an authentication error is the last thing the retry loop did.
AuthNeverRetried ==
    \A r \in Slots : \A i \in 1..Len(req[r].trace) :
        (req[r].trace[i].kind = "call"
            /\ isAuthenticationError(req[r].trace[i].error))
        => /\ i = Len(req[r].trace)
           /\ req[r].pc \in {"failed", "caught", "done"}

\* the number of the attempts up to event i that did not end with a rate-limit
\* error
GenericAttemptsUpTo(tr, i) ==
    Cardinality({j \in 1..i : tr[j].kind = "call" /\ ~isRateLimitError(tr[j].error)})

\* C5: a rate-limit wait does not consume a retry slot. Every rate-limit wait
\* is followed by another invocation; the backoff after a generic failure is
\* the one of the schedule with the rate-limited attempts left out; the loop
\* gives up only after MaxRetries attempts that were not rate limited.
RateLimitKeepsSchedule ==
    \A r \in Slots :
        LET tr == req[r].trace
        IN  /\ LoopOver(r) /\ tr # <<>> => tr[Len(tr)].kind # "sleep"
            /\ \A i \in 2..Len(tr) :
                  (tr[i].kind = "sleep" /\ ~isRateLimitError(tr[i - 1].error))
                  => tr[i].ms = RetryDelay * Pow2(GenericAttemptsUpTo(tr, i) - 1)
            /\ (req[r].pc = "failed" /\ \A i \in 1..Len(tr) :
                    tr[i].kind = "call" => ~isAuthenticationError(tr[i].error))
               => GenericAttemptsUpTo(tr, Len(tr)) = MaxRetries

\* the retry loop of the call ended and every attempt ended with an error that
\* is neither a rate-limit nor an authentication error
AllGenericFailure(r) ==
    /\ req[r].pc \in {"failed", "caught", "done"}
    /\ req[r].trace # <<>>
    /\ \A i \in 1..Len(req[r].trace) :
          /\ req[r].trace[i].kind # "ok"
          /\ req[r].trace[i].kind = "call" => IsGeneric(req[r].trace[i].error)

\* C6: a request whose every attempt fails with a generic error invokes the
\* client exactly 3 times, sleeps 1000 ms and then 2000 ms between the
\* attempts, does not sleep after the last one, and the error that goes to the
\* circuit breaker is the error of the last attempt.
GenericFailureSchedule ==
    \A r \in Slots :
        AllGenericFailure(r)
        => LET tr == req[r].trace
           IN  /\ Len(Attempts(tr)) = 3
               /\ Len(tr) = 5
               /\ tr[2] = Sleep(1000)
               /\ tr[4] = Sleep(2000)
               /\ tr[5].kind = "call"
               /\ req[r].lastError = tr[5].error

\* three generic failures with different errors, the last one on its way to
\* the circuit breaker
GenericFailureScheduleWitness ==
    /\ req[1].pc = "failed"
    /\ req[1].trace = <<FailedAttempt(InitError), Sleep(1000),
                        FailedAttempt(InitError), Sleep(2000),
                        FailedAttempt(NetworkError)>>
    /\ req[1].lastError = NetworkError

\* C7: the response says fallbackUsed exactly when no attempt of the call on
\* the external service succeeded, and a response of the fallback generator
\* says safetyValidated.
FallbackFlag ==
    \A r \in Slots :
        Settled(r)
        => /\ req[r].resp.metadata.fallbackUsed <=> ~HasSuccess(req[r].trace)
           /\ req[r].resp.metadata.modelUsed = "Enhanced Fallback Analysis Engine"
              => req[r].resp.metadata.safetyValidated

\* a call has settled with the fallback response after its retries were used up
FallbackFlagWitness ==
    /\ Settled(1)
    /\ Len(Attempts(req[1].trace)) = MaxRetries
    /\ ~HasSuccess(req[1].trace)
    /\ req[1].resp.metadata.fallbackUsed
    /\ req[1].resp.metadata.safetyValidated
    /\ req[1].resp.metadata.modelUsed = "Enhanced Fallback Analysis Engine"

\* the call reached the circuit breaker and ended without a successful response
FailedRequest(r) ==
    /\ Settled(r)
    /\ ReachedBreaker(r)
    /\ ~HasSuccess(req[r].trace)

\* the step that settles a failed request appends one record, the one of the
\* error of the request
RecordsOnSettle ==
    \A r \in Slots :
        (req[r].pc # "done" /\ req'[r].pc = "done"
            /\ ReachedBreaker(r) /\ ~HasSuccess(req[r].trace))
        => /\ Len(errorHistory') = Len(errorHistory) + 1
           /\ errorHistory'[Len(errorHistory')].error = req[r].lastError.message
           /\ SubSeq(errorHistory', 1, Len(errorHistory)) = errorHistory

HighRiskTopPrediction(data) ==
    HighRiskConditions \cap data.analysisResult.topPrediction # {}

\* C9: when the name of the top prediction has one of the high-risk substrings
\* (melanoma, carcinoma, cancer), the response has the urgency level
\* 'immediate' and a contact of type 'emergency', whatever risk label the
\* classifier gave and whether the primary or the fallback path produced it.
HighRiskIsImmediate ==
    \A r \in Slots :
        (Settled(r) /\ ReachedBreaker(r) /\ HighRiskTopPrediction(req[r].input))
        => /\ req[r].resp.consultation.urgencyLevel = "immediate"
           /\ "emergency" \in req[r].resp.emergencyContacts


\* the execution of a call ends with a failure
FailureStep(r) == req[r].pc = "failed" /\ req'[r].pc = "caught"

\* a call enters its operation
AdmitStep(r) == req[r].pc = "idle" /\ req'[r].pc = "attempt"

\* the transition of the half-open state: a failure while the breaker is
\* half-open opens it with the timestamp of that failure, and the open breaker
\* admits no call before the recovery timeout has elapsed
FailureInHalfOpenReopens ==
    /\ [][\A r \in Slots :
             (FailureStep(r) /\ state = "half-open")
             => state' = "open" /\ lastFailureTime' = now]_vars
    /\ [][\A r \in Slots :
             (AdmitStep(r) /\ state = "open")
             => now - lastFailureTime > RecoveryTimeout]_vars
    /\ [](state = "half-open" => failureCount >= FailureThreshold)

\* the call was admitted by the recovering breaker: it made the breaker
\* half-open, or it found it half-open
AdmittedOnTrial(r) ==
    \/ req[r].entry = Entry("open", TRUE)
    \/ req[r].entry.state = "half-open"

\* C11: when the trial operation admitted in the half-open state fails, the
\* breaker goes back to open and the failure timestamp is the time of that
\* failure.
TrialFailureReopens ==
    [][\A r \in Slots :
          (FailureStep(r) /\ AdmittedOnTrial(r))
          => state' = "open" /\ lastFailureTime' = now]_vars

\* C12: no update of the breaker or of the error history is lost when calls
\* overlap: every failed execution adds one to the failure count, every failed
\* request adds one record, and the breaker is open as soon as the count is at
\* the threshold.
NoLostUpdate ==
    /\ [][\A r \in Slots :
             FailureStep(r)
             => /\ failureCount' = failureCount + 1
                /\ failureCount' >= FailureThreshold => state' = "open"]_vars
    /\ [](failureCount = consecutiveFailures)
    /\ [](Len(errorHistory) = failedRequests)

\* two calls were in their operation together and both failed, the second of
\* them with the failure that opens the breaker; neither has written its
\* record yet
NoLostUpdateWitness ==
    /\ \A r \in {1, 2} :
          /\ req[r].pc = "caught"
          /\ req[r].entry.state = "closed"
          /\ Len(req[r].trace) = 1
    /\ failureCount = FailureThreshold
    /\ state = "open"
    /\ Len(errorHistory) = FailureThreshold - 2

\* the call has the response of processGeminiResponse
HasPrimaryResponse(r) ==
    /\ req[r].pc \in {"succeeded", "returning", "done"}
    /\ HasSuccess(req[r].trace)

\* C13: on the primary path safetyValidated is false exactly when the text
\* taken from the external answer has one of the prohibited phrasings; the
\* standard disclaimer never causes the rejection.
SafetyFlagFollowsAnswer ==
    \A r \in Slots :
        HasPrimaryResponse(r)
        => (req[r].resp.metadata.safetyValidated
              <=> ProhibitedTerms \cap req[r].resp.consultation.text = {})

\* the call returns an answer the validator rejected as it is
UnsafeAnswerReturned(r) ==
    (req[r].pc = "returning" /\ req'[r].pc = "done"
        /\ ~req[r].resp.metadata.safetyValidated)
    => /\ req'[r].outcome = "resolved"
       /\ req'[r].resp.consultation = req[r].resp.consultation
       /\ req'[r].resp.metadata.modelUsed = "gemini"
       /\ ~req'[r].resp.metadata.safetyValidated
       /\ ~req'[r].resp.metadata.fallbackUsed
       /\ req'[r].recorded = 0
       /\ errorHistory' = errorHistory
       /\ failureCount' = 0
       /\ state' = "closed"

\* C14: an answer the validator rejects is not a failure: the call returns the
\* parsed primary response with safetyValidated false and fallbackUsed false,
\* the breaker has registered a success (count 0, closed) and no error record
\* was written.
SafetyFailureIsNotAnError ==
    /\ [][\A r \in Slots : UnsafeAnswerReturned(r)]_vars
    /\ [](\A r \in Slots :
            (req[r].pc = "returning" /\ ~req[r].resp.metadata.safetyValidated)
            => failureCount = 0 /\ state = "closed" /\ errorHistory = <<>>)

\* after two failed attempts the client answered with a text that has
\* 'definitely' in a part the parser takes, and the call has settled
SafetyFailureIsNotAnErrorWitness ==
    /\ Settled(1)
    /\ Len(Attempts(req[1].trace)) = 2
    /\ HasSuccess(req[1].trace)
    /\ "definitely" \in req[1].resp.consultation.text
    /\ ~req[1].resp.metadata.safetyValidated
    /\ ~req[1].resp.metadata.fallbackUsed

\* C15: a validation failure is detected before any external call: the client
\* is not invoked, the breaker is not entered, and the response is the error
\* consultation (urgency 'routine', confidence score 0), not the fallback.
ValidationShortCircuits ==
    \A r \in Slots :
        (req[r].pc # "idle" /\ ~validateInput(req[r].input).valid)
        => /\ Settled(r)
           /\ ~ReachedBreaker(r)
           /\ req[r].trace = <<>>
           /\ req[r].recorded = 0
           /\ req[r].resp.metadata.modelUsed = "Error Handler"
           /\ req[r].resp.metadata.confidenceScore = 0
           /\ req[r].resp.consultation.urgencyLevel = "routine"
           /\ ~req[r].resp.hasEmergencyContacts

\* a call without an analysis result has settled with the error consultation
ValidationShortCircuitsWitness ==
    /\ Settled(1)
    /\ req[1].input.analysisResult.isNull
    /\ req[1].trace = <<>>
    /\ req[1].resp = createErrorConsultation
    /\ errorHistory = <<>>

\* a prediction of the input has a confidence outside [0, 1]
PredictionConfidenceOutOfRange(data) ==
    \E i \in 1..Len(data.analysisResult.predictions) :
        \/ data.analysisResult.predictions[i].confidence < 0
        \/ data.analysisResult.predictions[i].confidence > 100

\* C16: validateInput rejects every input with a prediction whose confidence
\* is outside [0, 1], so such an input never reaches the external call or the
\* fallback generator.
PredictionConfidenceValidated ==
    \A r \in Slots :
        (req[r].pc # "idle" /\ PredictionConfidenceOutOfRange(req[r].input))
        => /\ ~validateInput(req[r].input).valid
           /\ ~ReachedBreaker(r)
           /\ req[r].trace = <<>>

NonEmptyTexts == {"answer", "local", NoSymptomsText}

\* C17: for a valid input, on every path, the six fields of the consultation
\* body are not empty (a section the answer lacks is filled locally) and the
\* metadata has the booleans safetyValidated and fallbackUsed.
BodyFullyPopulated ==
    \A r \in Slots :
        (Settled(r) /\ validateInput(req[r].input).valid)
        => LET c == req[r].resp.consultation
           IN  /\ c.conditionAssessment \in NonEmptyTexts
               /\ c.symptomCorrelation \in NonEmptyTexts
               /\ c.recommendations # <<>>
               /\ c.urgencyLevel \in UrgencyLevels
               /\ c.educationalInfo \in NonEmptyTexts
               /\ c.medicalDisclaimer # {}
               /\ req[r].resp.metadata.safetyValidated \in BOOLEAN
               /\ req[r].resp.metadata.fallbackUsed \in BOOLEAN

\* a call has settled with an answer that has the assessment section only: the
\* other sections are local
BodyFullyPopulatedWitness ==
    /\ Settled(1)
    /\ HasSuccess(req[1].trace)
    /\ req[1].resp.consultation.conditionAssessment = "answer"
    /\ req[1].resp.consultation.symptomCorrelation = NoSymptomsText
    /\ req[1].resp.consultation.recommendations
          = generateFallbackRecommendations(req[1].input.analysisResult, <<>>)
    /\ req[1].resp.consultation.educationalInfo = "local"

\* the step appends the record of a failed request
RecordStep == failedRequests' = failedRequests + 1

\* C18: the error history is a bounded FIFO: it never holds more than
\* MaxErrorHistory records; a new record goes to the end, behind the records
\* that were there, which keep their order and their content; a record
\* appended to a full history evicts the oldest one and no other.
BoundedFifo ==
    /\ [](Len(errorHistory) <= MaxErrorHistory)
    /\ [][RecordStep
          => /\ errorHistory' =
                  Append(IF Len(errorHistory) = MaxErrorHistory
                         THEN Tail(errorHistory) ELSE errorHistory,
                         errorHistory'[Len(errorHistory')])
             /\ errorHistory'[Len(errorHistory')].timestamp = now]_vars
    /\ [][~RecordStep => errorHistory' = errorHistory]_vars

\* more requests have failed than the history holds: the first records, of
\* authentication errors, are evicted, a later one is now the oldest
BoundedFifoWitness ==
    /\ failedRequests = MaxErrorHistory + 3
    /\ Len(errorHistory) = MaxErrorHistory
    /\ errorHistory[1].category = "authentication"
    /\ errorHistory[3].category = "service_unavailable"
    /\ errorHistory[MaxErrorHistory].category = "service_unavailable"

\* the number of the records of the last minute, counted on the history
RecordsInLastMinute ==
    Cardinality({i \in 1..Len(errorHistory) : now - errorHistory[i].timestamp < 60000})

\* C19: getHealthStatus reports healthy = false exactly when at least 3 error
\* records are in the trailing minute or the breaker is open (a half-open
\* breaker with fewer recent errors is healthy), and the recommended action is
\* 'Service operating normally' exactly when healthy is true.
HealthStatusExact ==
    /\ getHealthStatus.healthy <=> ~(RecordsInLastMinute >= 3 \/ state = "open")
    /\ getHealthStatus.recommendedAction = "Service operating normally"
         <=> getHealthStatus.healthy
    /\ getHealthStatus.recentErrorCount = RecordsInLastMinute

\* the breaker is half-open after five failures that are older than a minute:
\* the service is reported healthy
HealthStatusExactWitness ==
    /\ state = "half-open"
    /\ Len(errorHistory) >= FailureThreshold
    /\ RecordsInLastMinute = 0
    /\ getHealthStatus.healthy
    /\ getHealthStatus.recommendedAction = "Service operating normally"

\* C20: resetErrorTracking, in any state, empties the error history and
\* leaves the breaker closed with the failure count 0 and the failure
\* timestamp cleared, so that the breaker admits the next request.
ResetClears ==
    [][ResetErrorTracking
       => /\ totalErrors' = 0
          /\ state' = "closed"
          /\ failureCount' = 0
          /\ lastFailureTime' = 0
          /\ Admits']_vars

\* after a reset of the open breaker, while a call it had rejected was still
\* on its way, a new call is in its first attempt
ResetClearsWitness ==
    /\ \E r \in Slots : req[r].entry = Entry("open", FALSE)
    /\ \E r \in Slots : req[r].pc = "attempt" /\ req[r].entry = Entry("closed", FALSE)
    /\ errorHistory = <<>>
    /\ failureCount = 0
    /\ state = "closed"

\* the urgency level of the rule for a risk level, the name of the top
\* condition and its attention flag
RuleUrgencyLevel(riskLevel, name, attention) ==
    IF riskLevel = "high" \/ HighRiskConditions \cap name # {} THEN "immediate"
    ELSE IF attention \/ riskLevel = "moderate" THEN "within_week"
    ELSE IF riskLevel = "low" /\ ~attention THEN "monitor"
    ELSE "routine"

\* C21: the urgency level of a fallback response is the one of the rule: risk
\* 'high' or a top-condition name with a high-risk term gives 'immediate';
\* otherwise the attention flag or risk 'moderate' gives 'within_week';
\* otherwise risk 'low' without the flag gives 'monitor'; otherwise 'routine'.
FallbackUrgencyByRule ==
    \A r \in Slots :
        FailedRequest(r)
        => LET a == req[r].input.analysisResult
           IN  req[r].resp.consultation.urgencyLevel
                 = RuleUrgencyLevel(a.riskLevel, a.predictions[1].condition,
                                    a.predictions[1].requiresAttention)

\* C22: the emergency contacts of a primary or a fallback response always hold
\* a dermatologist contact, hold an 'emergency' contact exactly when the risk
\* level of the analysis result is 'high', and hold an 'urgent_care' contact
\* exactly when that risk level is not 'low'.
ContactsByRiskLevel ==
    \A r \in Slots :
        (Settled(r) /\ ReachedBreaker(r))
        => LET contacts == req[r].resp.emergencyContacts
               riskLevel == req[r].input.analysisResult.riskLevel
           IN  /\ "dermatologist" \in contacts
               /\ "emergency" \in contacts <=> riskLevel = "high"
               /\ "urgent_care" \in contacts <=> riskLevel # "low"
               /\ req[r].resp.hasEmergencyContacts

\* a fallback response for the risk level 'high' and a name without a
\* high-risk term: the three contacts
ContactsByRiskLevelWitness ==
    /\ FailedRequest(1)
    /\ req[1].input.analysisResult.riskLevel = "high"
    /\ req[1].input.analysisResult.topPrediction = {"healthy"}
    /\ req[1].resp.emergencyContacts = {"emergency", "dermatologist", "urgent_care"}

\* C23: when every attempt on the external service fails, the recommendation
\* list of the fallback response has between 1 and 8 entries, for every risk
\* level, condition name, error category and symptom keyword, and its first
\* entry is the first one of the risk level (the urgent one for 'high').
FallbackRecommendations ==
    \A r \in Slots :
        FailedRequest(r)
        => LET list == req[r].resp.consultation.recommendations
               riskLevel == req[r].input.analysisResult.riskLevel
           IN  /\ req[r].resp.metadata.fallbackUsed
               /\ Len(list) >= 1
               /\ Len(list) <= 8
               /\ list[1] = RiskRecommendations(riskLevel)[1]
               /\ riskLevel = "high" <=> list[1] = "URGENT: Seek immediate medical attention"

\* a high-risk melanoma with symptoms that name pain and itching, after three
\* network errors: thirteen entries apply, the list has the first eight
FallbackRecommendationsWitness ==
    /\ FailedRequest(1)
    /\ Len(Attempts(req[1].trace)) = MaxRetries
    /\ req[1].resp.consultation.recommendations
         = <<"URGENT: Seek immediate medical attention", "Do not delay",
             "Consider emergency care",
             "CRITICAL: Contact a dermatologist immediately", "Protect the area from sun",
             "Document the lesion", "Prepare a list of changes",
             "Take clear photos weekly">>
    /\ includes(req[1].input.symptoms, PainKeyword)
    /\ includes(req[1].input.symptoms, ItchKeyword)
    /\ categorizeError(req[1].lastError) = "network"

\* C24: for a valid input whose symptoms are empty or only whitespace, the
\* symptom correlation of the response says that no symptoms were provided,
\* on the primary path as on the fallback path.
NoSymptomsStated ==
    \A r \in Slots :
        (Settled(r) /\ ReachedBreaker(r) /\ NoSymptoms(req[r].symptoms))
        => req[r].resp.consultation.symptomCorrelation = NoSymptomsText

\* C25: sanitization is idempotent: the sanitized symptoms of a call are left
\* as they are by another pass of sanitizeSymptoms, also when the removal of a
\* pattern joined the characters around it or left whitespace at an end.
SanitizeIdempotent ==
    \A r \in Slots :
        req[r].pc # "idle"
        => sanitizeSymptoms(req[r].input.symptoms) = req[r].input.symptoms

ItchyWord == <<"i", "t", "c", "h", "y">>

\* C26: after the one pass of sanitizeSymptoms the symptoms of a call hold no
\* script-like fragment (no script or HTML tag, no 'javascript:', 'data:',
\* 'vbscript:', no event handler 'on...='), and a word in front of the
\* fragments is still there.
NoScriptFragment ==
    \A r \in Slots :
        req[r].pc # "idle"
        => /\ \A k \in 1..Len(HarmfulPatterns) :
                 ~Matches(HarmfulPatterns[k], req[r].input.symptoms)
           /\ StartsAt(req[r].symptoms, 1, ItchyWord)
                 => StartsAt(req[r].input.symptoms, 1, ItchyWord)

\* C27: the first attempt of a request that succeeds ends its retry loop: the
\* answer is the last thing the call did on the client (no further invocation,
\* no backoff sleep, no rate-limit sleep), the loop is over and the response
\* is the parsed answer.
FirstSuccessReturns ==
    \A r \in Slots : \A i \in 1..Len(req[r].trace) :
        req[r].trace[i].kind = "ok"
        => /\ i = Len(req[r].trace)
           /\ req[r].pc \in {"succeeded", "returning", "done"}
           /\ req[r].resp.metadata.modelUsed = "gemini"

\* the second attempt of a call succeeded after a network error and one
\* backoff sleep; the call has settled without a third attempt
FirstSuccessReturnsWitness ==
    /\ Settled(1)
    /\ req[1].trace = <<FailedAttempt(NetworkError), Sleep(1000), SuccessfulAttempt>>
    /\ req[1].attempt = 2
    /\ ~req[1].resp.metadata.fallbackUsed

\* a step in which getErrorStatistics, isHealthy or getHealthStatus returns
ReportStep == report = NoReport /\ report' # NoReport

\* C28: getErrorStatistics, isHealthy and getHealthStatus leave the state, the
\* failure counter and the failure timestamp of the breaker and the error
\* history as they are, in every state; an open breaker whose recovery
\* timeout has elapsed is still open after a report.
ReportsLeaveBreaker ==
    [][ReportStep => /\ UNCHANGED <<state, failureCount, lastFailureTime>>
                     /\ UNCHANGED errorHistory
                     /\ (state = "open" => state' = "open")]_vars

\* getHealthStatus has returned on an open breaker whose recovery timeout has
\* elapsed, with failures on record; the breaker is open
ReportsLeaveBreakerWitness ==
    /\ report.op = "getHealthStatus"
    /\ report.status.circuitBreakerState = "open"
    /\ state = "open"
    /\ RecoveryElapsed
    /\ failureCount >= FailureThreshold
    /\ errorHistory # <<>>

\* C29: the promise of sendConsultationRequest never rejects: a call that
\* failed (no API key, failed initialization, no model, an error thrown by the
\* provider) resolves with success = false, an error message and metadata; a
\* call that succeeded resolves with success = true and content.
SendNeverRejects ==
    \A c \in Calls :
        call[c].pc = "done"
        => /\ call[c].result.settled = "resolved"
           /\ call[c].result.metadata
           /\ IF call[c].result.success
              THEN call[c].result.content /\ call[c].result.error = ""
              ELSE call[c].result.error # "" /\ ~call[c].result.content

\* one call has resolved with content while another, begun on a client
\* that could not be initialized, has resolved with the failure as a value
SendNeverRejectsWitness ==
    /\ call[1].pc = "done"
    /\ call[1].result = SendReturn
    /\ call[2].pc = "done"
    /\ call[2].result = SendCatch(InitializationFailed)

\* C30: isReady() is false for a new client, becomes true only by an
\* initialize() that succeeded on a client with an API key, and is false
\* after reset(), after configureModel() and after an initialize() that
\* failed; whenever isReady() holds the client has a model object.
ReadinessLifecycle ==
    /\ [](client.last.op = "new" => ~isReady(client))
    /\ [][~isReady(client) /\ isReady(client')
          => client'.last = LastOp("initialize", TRUE) /\ client.apiKey]_vars
    /\ [](client.last.op \in {"reset", "configureModel"} => ~isReady(client))
    /\ [](client.last = LastOp("initialize", FALSE) => ~isReady(client))
    /\ [](isReady(client) => client.model)

\* a client that was ready has been given new settings: it holds its model
\* and is not ready
ReadinessLifecycleWitness ==
    /\ client.last.op = "configureModel"
    /\ client.model
    /\ client.genAI
    /\ ~isReady(client)

\* C31: under every interleaving of concurrent requests and resets the breaker
\* is closed exactly when its failure counter is below the threshold; an open
\* or half-open breaker has a counter at or above the threshold.
ClosedIffBelowThreshold ==
    /\ state = "closed" <=> failureCount < FailureThreshold
    /\ state \in {"open", "half-open"} => failureCount >= FailureThreshold

\* a failure of a call that was in flight when the breaker opened has taken
\* the counter past the threshold, and the breaker is on trial with a call
\* admitted after the recovery timeout
ClosedIffBelowThresholdWitness ==
    /\ state = "half-open"
    /\ failureCount > FailureThreshold
    /\ \E r \in Slots : req[r].entry = Entry("open", TRUE) /\ req[r].pc = "attempt"

\* the invocations of the client in a trace: failed and answered attempts
Invocations(tr) == Len(SelectSeq(tr, LAMBDA e : e.kind \in {"call", "ok"}))

\* C32: within one request the client is invoked at most maxRetries (3) times
\* whatever the attempts return, rate-limit errors on every attempt included,
\* and every call that has begun settles.
BoundedInvocations ==
    /\ [](\A r \in Slots : Invocations(req[r].trace) <= MaxRetries)
    /\ \A r \in Slots : (req[r].pc # "idle") ~> Settled(r)

\* a call has settled after the client answered each of its three attempts
\* with a rate-limit error
BoundedInvocationsWitness ==
    /\ Settled(1)
    /\ Invocations(req[1].trace) = MaxRetries
    /\ \A i \in 1..Len(req[1].trace) :
          req[1].trace[i].kind = "call" => isRateLimitError(req[1].trace[i].error)

\* C33: the breaker counts failed requests, not failed attempts. The steps of
\* the retry loop leave the failure counter as it is, the end of a failed
\* request adds exactly one to it whatever the category of the error and the
\* number of attempts, and from a fresh engine the breaker opens in the step
\* that completes the fifth consecutive failed request, not before.
CountsRequests ==
    /\ [][/\ req[1].pc \in {"attempt", "backoff", "ratewait"}
             => UNCHANGED <<failureCount, state>>
          /\ FailureStep(1)
             => /\ failureCount' = failureCount + 1
                /\ Len(Attempts(req[1].trace)) \in 1..MaxRetries
          /\ state # "open" /\ state' = "open"
             => FailureStep(1) /\ consecutiveFailures' = FailureThreshold]_vars
    /\ [](failureCount = consecutiveFailures)
    /\ [](consecutiveFailures < FailureThreshold => state = "closed")

\* the fifth failed request in a row, one that made three attempts, has just
\* opened the breaker; an authentication failure of one attempt is among the
\* four before it
CountsRequestsWitness ==
    /\ req[1].pc = "caught"
    /\ Len(Attempts(req[1].trace)) = MaxRetries
    /\ state = "open"
    /\ failureCount = FailureThreshold
    /\ Len(errorHistory) = FailureThreshold - 1
    /\ \E i \in 1..Len(errorHistory) : errorHistory[i].category = "authentication"

\* the call in slot r was rejected by the open breaker
Rejected(r) == req[r].entry = Entry("open", FALSE)

\* C34: a call rejected because the breaker is open leaves the state, the
\* failure counter and the failure timestamp of the breaker as they are (the
\* open window is not extended), appends exactly one error record, of the
\* category 'service_unavailable', and returns a fallback response.
RejectionLeavesBreaker ==
    /\ [][\A r \in Slots :
            /\ (req[r].pc = "idle" /\ Rejected(r)')
               => /\ UNCHANGED <<state, failureCount, lastFailureTime>>
                  /\ UNCHANGED errorHistory
            /\ (Rejected(r) /\ req[r].pc = "caught" /\ req'[r].pc = "done")
               => /\ UNCHANGED <<state, failureCount, lastFailureTime>>
                  /\ Len(errorHistory') = Len(errorHistory) + 1
                  /\ SubSeq(errorHistory', 1, Len(errorHistory)) = errorHistory
                  /\ errorHistory'[Len(errorHistory')].category = "service_unavailable"
                  /\ req'[r].resp.metadata.fallbackUsed
                  /\ req'[r].resp.metadata.modelUsed
                       = "Enhanced Fallback Analysis Engine"]_vars
    /\ [](\A r \in Slots : Rejected(r) => req[r].trace = <<>> /\ req[r].recorded <= 1)

\* the open breaker has rejected a call, which has settled with a fallback
\* response and one record; the breaker is open with the count and the
\* timestamp of the failure that opened it
RejectionLeavesBreakerWitness ==
    /\ \E r \in Slots :
          /\ Rejected(r)
          /\ Settled(r)
          /\ req[r].recorded = 1
          /\ req[r].resp.metadata.fallbackUsed
    /\ state = "open"
    /\ failureCount = FailureThreshold
    /\ lastFailureTime = 0
    /\ now > 0
    /\ errorHistory[Len(errorHistory)].category = "service_unavailable"

\* a step of resetErrorTracking()
ResetStep ==
    /\ UNCHANGED req
    /\ errorHistory' = <<>>
    /\ failureCount' = 0
    /\ lastFailureTime' = 0
    /\ state' = "closed"

\* C35: under every interleaving of concurrent requests the breaker leaves
\* the open state only to half-open, by a call admitted after the recovery
\* timeout has elapsed, or by a reset; the outcome of a call never takes it
\* from open to closed.
OpenLeavesByTrialOrReset ==
    [][(state = "open" /\ state' # "open")
       => \/ /\ state' = "half-open"
             /\ RecoveryElapsed
             /\ \E r \in Slots : AdmitStep(r)
          \/ ResetStep]_vars

\* the call in slot r is the trial the open breaker admitted after the timeout
Trial(r) == req[r].entry = Entry("open", TRUE)

\* C36: recovery is live. A request that arrives at the open breaker more than
\* the recovery timeout after the last recorded failure is admitted to the
\* external call; when that call succeeds the breaker is closed with the
\* failure counter 0; and while requests keep arriving an open breaker does
\* not stay open (as long as the clock of the model has room for the timeout).
RecoveryIsLive ==
    /\ [][/\ (req[1].pc = "idle" /\ req'[1].pc # "idle"
                 /\ state = "open" /\ RecoveryElapsed)
             => /\ req'[1].pc = "attempt"
                /\ Trial(1)'
                /\ state' = "half-open"
          /\ (Trial(1) /\ req[1].pc = "succeeded" /\ req'[1].pc = "returning")
             => state' = "closed" /\ failureCount' = 0]_vars
    /\ (state = "open" /\ lastFailureTime + 2 * RecoveryTimeout <= MaxTime)
          ~> (state # "open")

\* the trial admitted after the recovery timeout has succeeded and its call
\* has settled with the primary response; the breaker is closed, the counter 0
RecoveryIsLiveWitness ==
    /\ Trial(1)
    /\ Settled(1)
    /\ HasSuccess(req[1].trace)
    /\ ~req[1].resp.metadata.fallbackUsed
    /\ state = "closed"
    /\ failureCount = 0
    /\ now - lastFailureTime > RecoveryTimeout
    /\ Len(errorHistory) >= FailureThreshold

\* a call begins and ends in slot r in this step, on an input that fails
\* validateInput
ValidationFailureStep(r) ==
    /\ req[r].pc = "idle"
    /\ req'[r].pc = "done"
    /\ ~validateInput(req'[r].input).valid

\* C37: a request that fails input validation leaves the shared state as it
\* is: the state, the failure counter and the failure timestamp of the breaker
\* and the error history are the same after the call as before it.
ValidationFailureFrame ==
    [][\A r \in Slots :
          ValidationFailureStep(r)
          => /\ UNCHANGED <<state, failureCount, lastFailureTime>>
             /\ UNCHANGED errorHistory
             /\ req'[r].recorded = 0
             /\ req'[r].entry = NoEntry]_vars

\* a request without a session id has ended with the error consultation
\* while the breaker is open with five failures on record, and another call
\* is in flight
ValidationFailureFrameWitness ==
    /\ \E r \in Slots :
          /\ Settled(r)
          /\ ~validateInput(req[r].input).valid
          /\ req[r].resp.metadata.modelUsed = "Error Handler"
    /\ \E q \in Slots : req[q].pc = "attempt"
    /\ state = "open"
    /\ failureCount = FailureThreshold
    /\ Len(errorHistory) >= FailureThreshold - 1

\* C38: the generic error consultation (modelUsed 'Error Handler') is returned
\* only for inputs that fail validateInput; a call on an input for which
\* validateInput reports no errors reaches the breaker, where it is admitted
\* or rejected, and yields the primary or the fallback response.
ErrorConsultationOnlyForInvalid ==
    \A r \in Slots :
        (Settled(r) /\ validateInput(req[r].input).valid)
        => /\ req[r].resp.metadata.modelUsed # "Error Handler"
           /\ ReachedBreaker(r)

\* C39: for an input whose risk level is low, moderate or high the urgency
\* level of a fallback response is never 'routine' (the first three branches
\* of determineUrgencyLevel take every such input); among the responses with
\* fallbackUsed only the generic error consultation is 'routine'.
FallbackNeverRoutine ==
    \A r \in Slots :
        /\ (FailedRequest(r) /\ req[r].input.analysisResult.riskLevel \in RiskLevels)
           => req[r].resp.consultation.urgencyLevel
                \in {"immediate", "within_week", "monitor"}
        /\ (Settled(r) /\ req[r].resp.metadata.fallbackUsed
                /\ req[r].resp.consultation.urgencyLevel = "routine")
           => req[r].resp.metadata.modelUsed = "Error Handler" /\ ~ReachedBreaker(r)

\* a failed request on a low-risk result whose top condition does not require
\* attention: the third branch gives 'monitor'
FallbackNeverRoutineWitness ==
    /\ FailedRequest(1)
    /\ req[1].input.analysisResult.riskLevel = "low"
    /\ ~req[1].input.analysisResult.predictions[1].requiresAttention
    /\ req[1].resp.metadata.fallbackUsed
    /\ req[1].resp.consultation.urgencyLevel = "monitor"
====
